---- MODULE Spec2Model ----
(***************************************************************************)
(* Model of the nav-tracker navigation tracker store                       *)
(* (pkg/storage, counter-based NavigationTracker) together with the event  *)
(* validation and URL normalisation of pkg/models.                         *)
(*                                                                         *)
(* Time is counted in hours; the zero time.Time is 0 and the process       *)
(* starts at hour 1.  A URL string is modelled by its components (the      *)
(* text between the delimiters), a visitor identifier by its sequence of   *)
(* characters, user agent and referrer by TLA+ strings (only their length  *)
(* and emptiness matter to the code).                                      *)
(***************************************************************************)
EXTENDS Integers, Sequences, FiniteSets, TLC

\* ------------------------------------------------------------------------
\* Bounds of the model
\* ------------------------------------------------------------------------
MaxEvents == 3

MaxClock == 125

MaxUpdates == 1
NumCallers == 2
EventsPerCaller == 2

\* ------------------------------------------------------------------------
\* Program constants (pkg/models)
\* ------------------------------------------------------------------------
MinVisitorIDLength == 1

MaxVisitorIDLength == 255

MaxURLLength == 2048

MaxUserAgentLength == 500

MaxReferrerLength == 2048

RetentionHours == 24

\* ------------------------------------------------------------------------
\* Strings
\* ------------------------------------------------------------------------
Dbl(s) == s \o s

\* 512 and 4096 characters
Str512 == Dbl(Dbl(Dbl(Dbl(Dbl(Dbl(Dbl(Dbl(Dbl("a")))))))))

Str4096 == Dbl(Dbl(Dbl(Str512)))

\* the characters matched by visitorIDRegex, ^[a-zA-Z0-9_-]+$
visitorIDChars ==
    { "a","b","c","d","e","f","g","h","i","j","k","l","m",
      "n","o","p","q","r","s","t","u","v","w","x","y","z",
      "A","B","C","D","E","F","G","H","I","J","K","L","M",
      "N","O","P","Q","R","S","T","U","V","W","X","Y","Z",
      "0","1","2","3","4","5","6","7","8","9","_","-" }

\* a pattern that matches every non-empty identifier
visitorIDRegexMatchAny(id) ==
    Len(id) >= 1

\* visitorIDRegex.MatchString
visitorIDRegexMatch(id) ==
    /\ Len(id) >= 1
    /\ \A i \in 1..Len(id) : id[i] \in visitorIDChars

\* a conversion that leaves the letter case as it is
ToLowerKeepsCase(s) ==
    s

\* strings.ToLower on the tokens that occur in the model
ToLower(s) ==
    CASE s = "HTTPS"       -> "https"
      [] s = "EXAMPLE.COM" -> "example.com"
      [] s = "Page1"       -> "page1"
      [] s = "Path"        -> "path"
      [] OTHER             -> s

\* ------------------------------------------------------------------------
\* URLs: scheme "://" host path "?" query "#" frag
\*   abs   : the path starts with "/"
\*   path  : the segments after the leading "/", so "/p/" is <<"p", "">>
\*           and "/" is <<"">>
\*   query : sequence of [k, v, eq] parameters (eq: an "=" is written)
\* ------------------------------------------------------------------------
MkURL(scheme, host, abs, path, query, frag) ==
    [scheme |-> scheme, host |-> host, abs |-> abs, path |-> path,
     query |-> query, frag |-> frag]

EmptyURL == MkURL("", "", FALSE, <<>>, <<>>, "")

RECURSIVE SumLen(_)
SumLen(segs) ==
    IF segs = <<>> THEN 0 ELSE Len(Head(segs)) + SumLen(Tail(segs))

RECURSIVE QueryLen(_)
QueryLen(q) ==
    IF q = <<>> THEN 0
    ELSE Len(Head(q).k) + (IF Head(q).eq THEN 1 ELSE 0) + Len(Head(q).v)
         + QueryLen(Tail(q))

\* len(ne.URL)
URLLen(u) ==
      (IF u.scheme # "" THEN Len(u.scheme) + 1 ELSE 0)
    + (IF u.host # "" THEN 2 + Len(u.host) ELSE 0)
    + (IF u.abs THEN 1 ELSE 0)
    + SumLen(u.path) + (IF Len(u.path) > 1 THEN Len(u.path) - 1 ELSE 0)
    + (IF u.query # <<>> THEN Len(u.query) + QueryLen(u.query) ELSE 0)
    + (IF u.frag # "" THEN 1 + Len(u.frag) ELSE 0)

\* url.ParseRequestURI(raw) returns an error
ParseRequestURIFails(u) ==
    \/ u = EmptyURL
    \/ u.scheme = "" /\ ~u.abs

\* url.Parse(raw) returns an error (none of the shapes above fails to parse
\* as a URI reference)
ParseFails(u) == FALSE

\* ------------------------------------------------------------------------
\* Events
\* ------------------------------------------------------------------------
MkEvent(v, u, ua, ref) ==
    [VisitorID |-> v, URL |-> u, UserAgent |-> ua, Referrer |-> ref]

\* NavigationEvent.Validate: the list of error reasons
ValidateErrors(ne) ==
       (IF ne.VisitorID = <<>> THEN {"visitor_id is required"}
        ELSE IF Len(ne.VisitorID) < MinVisitorIDLength
                \/ Len(ne.VisitorID) > MaxVisitorIDLength
             THEN {"visitor_id length"}
        ELSE IF ~visitorIDRegexMatch(ne.VisitorID)
             THEN {"visitor_id contains invalid characters"}
        ELSE {})
  \cup (IF ne.URL = EmptyURL THEN {"url is required"}
        ELSE IF URLLen(ne.URL) > MaxURLLength THEN {"url exceeds maximum length"}
        ELSE IF ParseRequestURIFails(ne.URL) THEN {"url is not a valid URI"}
        ELSE {})
  \cup (IF ne.UserAgent # "" /\ Len(ne.UserAgent) > MaxUserAgentLength
        THEN {"user_agent exceeds maximum length"} ELSE {})
  \cup (IF ne.Referrer # "" /\ Len(ne.Referrer) > MaxReferrerLength
        THEN {"referrer exceeds maximum length"} ELSE {})

\* Validate() returns nil
Validate(ne) == ValidateErrors(ne) = {}

\* url.Values.Encode: parameters sorted by key, each written as k=v
KeyLess(a, b) ==
    \/ a = "a" /\ b # "a"
    \/ a = "b" /\ b \notin {"a", "b"}

RECURSIVE InsertParam(_, _)
InsertParam(p, sorted) ==
    IF sorted = <<>> THEN <<p>>
    ELSE IF KeyLess(p.k, Head(sorted).k) THEN <<p>> \o sorted
    ELSE <<Head(sorted)>> \o InsertParam(p, Tail(sorted))

RECURSIVE QueryEncode(_)
QueryEncode(q) ==
    IF q = <<>> THEN <<>>
    ELSE InsertParam([k |-> q[Len(q)].k, v |-> q[Len(q)].v, eq |-> TRUE],
                     QueryEncode(SubSeq(q, 1, Len(q) - 1)))

\* IsValidURL(urlStr)
IsValidURL(u) ==
    /\ u # EmptyURL
    /\ ~ParseRequestURIFails(u)
    /\ u.scheme # "" /\ u.host # ""

\* a normalization that also lower-cases the path
NormalizeURLLowersPath(u) ==
    IF u = EmptyURL \/ ParseFails(u) THEN u
    ELSE LET lower == [i \in DOMAIN u.path |-> ToLower(u.path[i])]
             path  == IF lower # <<"">> /\ Len(lower) >= 1
                         /\ lower[Len(lower)] = ""
                      THEN SubSeq(lower, 1, Len(lower) - 1)
                      ELSE lower
         IN  MkURL(ToLower(u.scheme), ToLower(u.host),
                   u.abs, path, QueryEncode(u.query), "")

\* NavigationEvent.NormalizeURL: the URL string left in ne.URL
NormalizeURL(u) ==
    IF u = EmptyURL \/ ParseFails(u) THEN u
    ELSE LET path == IF u.path # <<"">> /\ Len(u.path) >= 1
                        /\ u.path[Len(u.path)] = ""
                     THEN SubSeq(u.path, 1, Len(u.path) - 1)
                     ELSE u.path
         IN  MkURL(ToLower(u.scheme), ToLower(u.host),
                   u.abs, path, QueryEncode(u.query), "")

\* ------------------------------------------------------------------------
\* The set-based tracker of tracker.go with the event of types.go
\* ------------------------------------------------------------------------
\* NavigationEvent.Validate of types.go returns nil
SimpleValidate(ne) ==
    /\ ne.VisitorID # <<>>
    /\ Len(ne.VisitorID) >= MinVisitorIDLength
    /\ Len(ne.VisitorID) <= MaxVisitorIDLength
    /\ visitorIDRegexMatch(ne.VisitorID)
    /\ ne.URL # EmptyURL
    /\ URLLen(ne.URL) <= MaxURLLength
    /\ ~ParseRequestURIFails(ne.URL)

\* NavigationEvent.NormalizeURL of types.go: the path is lower-cased as well,
\* and the query is left as written
SimpleNormalizeURL(u) ==
    IF u = EmptyURL \/ ParseFails(u) THEN u
    ELSE LET lower == [i \in DOMAIN u.path |-> ToLower(u.path[i])]
             path  == IF lower # <<"">> /\ Len(lower) >= 1
                         /\ lower[Len(lower)] = ""
                      THEN SubSeq(lower, 1, Len(lower) - 1)
                      ELSE lower
         IN  MkURL(ToLower(u.scheme), ToLower(u.host), u.abs, path, u.query, "")

\* nt.urlVisitors after RecordEvent(ne) of the set-based tracker
SimpleRecordEvent(visitors, ne) ==
    IF ~SimpleValidate(ne) THEN visitors
    ELSE LET url == SimpleNormalizeURL(ne.URL)
             old == IF url \in DOMAIN visitors THEN visitors[url] ELSE {}
         IN  [u \in DOMAIN visitors \cup {url} |->
                 IF u = url THEN old \cup {ne.VisitorID} ELSE visitors[u]]

\* GetDistinctVisitors(url) of the set-based tracker
SimpleGetDistinctVisitors(visitors, url) ==
    IF url \in DOMAIN visitors THEN Cardinality(visitors[url]) ELSE 0

\* ------------------------------------------------------------------------
\* Inputs
\* ------------------------------------------------------------------------
V1 == <<"u", "1">>

V2 == <<"u", "2">>

VSpace == <<"u", " ", "1">>

VLong == [i \in 1..(MaxVisitorIDLength + 1) |-> "a"]

Page1 == MkURL("https", "example.com", TRUE, <<"page1">>, <<>>, "")

Page1Upper == MkURL("HTTPS", "EXAMPLE.COM", TRUE, <<"page1", "">>, <<>>, "top")

Page2 == MkURL("https", "example.com", TRUE, <<"page2">>, <<>>, "")

NotAURL == MkURL("", "", FALSE, <<"not-a-url">>, <<>>, "")

LongURL == MkURL("https", "example.com", TRUE, <<Str4096>>, <<>>, "")

V3 == <<"u", "3">>

\* https://example.com/path and the spellings of it that differ in the case
\* of scheme and host, in one trailing slash and in the fragment
PathPlain == MkURL("https", "example.com", TRUE, <<"path">>, <<>>, "")

PathUpperHost == MkURL("https", "EXAMPLE.COM", TRUE, <<"path", "">>, <<>>, "")

PathSlash == MkURL("https", "example.com", TRUE, <<"path", "">>, <<>>, "")

PathFragment == MkURL("HTTPS", "example.com", TRUE, <<"path">>, <<>>, "top")

PathSpellings == { PathPlain, PathUpperHost, PathSlash, PathFragment }

\* https://example.com/Path
PathCase == MkURL("https", "example.com", TRUE, <<"Path">>, <<>>, "")

\* /page
PathOnly == MkURL("", "", TRUE, <<"page">>, <<>>, "")

\* https://example.com/path//
PathTwoSlashes == MkURL("https", "example.com", TRUE, <<"path", "", "">>, <<>>, "")

\* https://example.com//
PathRootTwoSlashes == MkURL("https", "example.com", TRUE, <<"", "">>, <<>>, "")

\* the user agent tells which spelling a visitor was recorded with
SpellingTag(u) ==
    CASE u = PathPlain     -> "plain"
      [] u = PathUpperHost -> "upper"
      [] u = PathSlash     -> "slash"
      [] u = PathFragment  -> "fragment"
      [] u = PathCase      -> "case"
      [] OTHER             -> "other"

URLEvents ==
    { MkEvent(v, u, SpellingTag(u), "") :
        v \in {V1, V2, V3}, u \in PathSpellings \cup {PathCase, PathOnly} }

\* https://example.com/path?b=1&a=2
PathQuery ==
    MkURL("https", "example.com", TRUE, <<"path">>,
          <<[k |-> "b", v |-> "1", eq |-> TRUE], [k |-> "a", v |-> "2", eq |-> TRUE]>>, "")

\* valid events for both trackers
RefineEvents ==
    { MkEvent(v, u, "", "") :
        v \in {V1, V2}, u \in {PathPlain, PathUpperHost, PathCase, PathQuery} }

SlashEvents ==
    { MkEvent(V1, u, "other", "") : u \in {PathTwoSlashes, PathRootTwoSlashes} }

ValidEvents ==
    { MkEvent(V1, Page1, "", ""),
      MkEvent(V2, Page1, "Mozilla", "https://ref.example"),
      MkEvent(V1, Page1Upper, "curl", ""),
      MkEvent(V1, Page2, "", ""),
      MkEvent(V2, Page2, "", "") }

InvalidEvents ==
    { MkEvent(<<>>, Page1, "", ""),
      MkEvent(VSpace, Page1, "", ""),
      MkEvent(VLong, Page1, "", ""),
      MkEvent(V1, EmptyURL, "", ""),
      MkEvent(V1, LongURL, "", ""),
      MkEvent(V1, NotAURL, "", ""),
      MkEvent(V1, Page1, Str512, ""),
      MkEvent(V1, Page1, "", Str4096) }

Events == ValidEvents \cup InvalidEvents

\* the URL strings a caller may query
QueryURLs == { Page1, Page1Upper, Page2 }

\* models.Configuration (Port, MaxVisitorsPerURL and EnableDetailedStats are
\* never read by the store)
MkConfig(mem, interval, urls, metricsOn) ==
    [MaxMemoryUsage |-> mem, CleanupInterval |-> interval, MaxURLs |-> urls,
     EnableMetrics |-> metricsOn]

\* the configuration built by NewNavigationTracker; the interval is in
\* milliseconds
DefaultConfig == MkConfig(100 * 1024 * 1024, 5 * 60000, 10000, TRUE)

\* a configuration with a small URL budget
TightConfig == MkConfig(1 * 1024 * 1024, 100, 1, TRUE)

Configs == { DefaultConfig, TightConfig }

\* a configuration whose cleanup interval is zero
ZeroIntervalConfig == MkConfig(100 * 1024 * 1024, 0, 10000, TRUE)

LifeConfigs == { TightConfig, ZeroIntervalConfig }

\* a configuration that turns the response-time metrics off
MetricsOffConfig == MkConfig(100 * 1024 * 1024, 100, 10000, FALSE)

ReconfConfigs == { TightConfig, ZeroIntervalConfig, MetricsOffConfig }

\* the events of the life-cycle specification
LifeEvents ==
    { MkEvent(V1, Page1, "", ""),
      MkEvent(V2, Page2, "", ""),
      MkEvent(VSpace, Page1, "", "") }

\* the events of the shutdown specification
StopEvents == { MkEvent(V1, Page1, "", ""), MkEvent(V2, Page2, "", "") }

\* three events on three URLs
BoundEvents ==
    { MkEvent(V1, Page1, "", ""),
      MkEvent(V1, Page2, "", ""),
      MkEvent(V2, PathPlain, "", "") }

\* an HTTP request to /ingest: the method, the Content-Length, whether the
\* body decodes as a NavigationEvent, the decoded body, and the User-Agent
\* and Referer headers
MkRequest(method, length, decodes, body, ua, referer) ==
    [Method |-> method, ContentLength |-> length, Decodes |-> decodes,
     Body |-> body, UserAgent |-> ua, Referer |-> referer]

IngestBodies ==
    { MkEvent(V1, Page1, "", ""),
      MkEvent(V2, Page2, "", ""),
      MkEvent(<<>>, Page1, "", ""),
      MkEvent(V1, NotAURL, "", ""),
      MkEvent(V1, Page1, Str512, "") }

\* the requests of the ingestion specification
Requests ==
    { MkRequest("POST", 100, TRUE, b, ua, ref) :
        b \in IngestBodies, ua \in {"", "Mozilla", Str512}, ref \in {"", Str4096} }
    \cup
    { MkRequest("GET", 100, TRUE, MkEvent(V1, Page1, "", ""), "", ""),
      MkRequest("POST", 20 * 1024, TRUE, MkEvent(V1, Page1, "", ""), "", ""),
      MkRequest("POST", 100, FALSE, MkEvent(V1, Page1, "", ""), "", "") }

\* visits of one visitor to one URL with and without a user agent and a
\* referrer
StickyEvents ==
    { MkEvent(V1, Page1, "", ""),
      MkEvent(V1, Page1, "Mozilla", "https://ref.example"),
      MkEvent(V1, Page1, "curl", ""),
      MkEvent(V1, Page1, "", "https://other.example") }

\* values runtime.ReadMemStats may report for m.Alloc
AllocSamples == { 512 * 1024, 200 * 1024 * 1024 }

\* ------------------------------------------------------------------------
\* State of the NavigationTracker
\* ------------------------------------------------------------------------
VARIABLES
    urlStats,        \* nt.urlStats: URL string -> URLStats (present URLs only)
    globalVisitors,  \* nt.globalVisitors: the keys mapped to true
    metrics,         \* nt.metrics
    config,          \* nt.config
    requestCount,    \* nt.requestCount
    responseTimes,   \* nt.responseTimes
    tickers,         \* every time.Ticker created so far: [interval, stopped,
                     \* tick], tick being a tick waiting in its channel C
    cleanupTicker,   \* nt.cleanupTicker: index into tickers
    cleanupStop,     \* nt.cleanupStop: "open" or "closed"
    workers,         \* the goroutines started by startCleanupRoutine
    clock,           \* time.Now(), in hours
    updates,         \* number of UpdateConfiguration calls made
    recorded,        \* number of RecordEvent calls that returned nil
    hist,            \* per URL and visitor: events folded into the aggregate
                     \* since it was last created
    lastOp,          \* the operation that returned last
    trail,           \* what the last two operations were and saw (kept
                     \* only by the specification that follows call pairs)
    lastRead,        \* the read operation that returned last and its result
                     \* (kept only by the specification of the reads)
    keep,            \* the specification being run; "pair" keeps trail and
                     \* "read" keeps lastRead
    mutex,           \* nt.mutex: Free or the caller that holds the write lock
    callers,         \* per concurrent caller: where it is inside RecordEvent
    cleaner,         \* where the cleanup goroutine is inside a tick
    reader,          \* a reading caller and the aggregates it was handed
    observed,        \* what a reader last saw of one aggregate
    anyEvicted,      \* a cleanup pass has removed an aggregate
    snap,            \* the aggregate GetDetailedURLStats handed to a caller
    updater,         \* where a caller is inside UpdateConfiguration
    getter,          \* where a caller is inside GetConfiguration
    rtCaller,        \* where a caller is inside RecordResponseTime
    response,        \* what the HTTP handler that ran last answered
    sync,            \* the two locks of the store, the calls in progress on
                     \* them and the cleanup goroutine, without the data
    server,          \* the HTTP server around the store: its shutdown channel
                     \* and the goroutines that stop it
    urlVisitors,     \* the map of the set-based tracker of tracker.go, fed
                     \* the same events as the store
    mc               \* the MetricsCollector, with circular buffer and with
                     \* slice, its lock and the RecordRequest calls in progress

storeVars == <<urlStats, globalVisitors, metrics>>

schedVars == <<tickers, cleanupTicker, cleanupStop, workers>>

vars == <<urlStats, globalVisitors, metrics, config, requestCount,
          responseTimes, tickers, cleanupTicker, cleanupStop, workers,
          clock, updates, recorded, hist, lastOp, trail, lastRead,
          keep, mutex, callers, cleaner, reader, observed,
          anyEvicted, snap, updater, getter, rtCaller, response, sync, server,
          urlVisitors, mc>>

\* the callers that only some specifications run; every other action leaves
\* them as they are
callVars == <<snap, updater, getter, rtCaller, sync, server, urlVisitors, mc>>

\* the variables of the statement-by-statement specification
concVars == <<mutex, callers, cleaner, reader, observed, anyEvicted, callVars>>

\* the variables only the operation-by-operation specifications use
seqVars == <<requestCount, responseTimes, tickers, cleanupTicker, cleanupStop,
             workers, updates, recorded, hist, lastOp, trail, lastRead, keep,
             callVars, response>>

Free == 0

\* the hour the program starts at, counted from the zero time.Time (which
\* is 0 here and before every cutoff a cleanup pass computes)
Epoch == 100

Callers == 1..NumCallers

\* the URL strings under which valid events are stored
URLKeys == { NormalizeURL(e.URL) : e \in ValidEvents }

VisitorIDs == { e.VisitorID : e \in ValidEvents }

\* len(m) of a map
MapLen(m) == Cardinality(DOMAIN m)

\* a new aggregate that counts its creation as a page view
NewURLStatsCountsCreation(url, now) ==
    [URL |-> url, Visitors |-> <<>>, TotalPageViews |-> 1,
     DistinctVisitors |-> 0, FirstVisit |-> 0, LastVisit |-> 0,
     CreatedAt |-> now, UpdatedAt |-> now]

\* &URLStats{URL: .., Visitors: make(..), CreatedAt: now, UpdatedAt: now}
NewURLStats(url, now) ==
    [URL |-> url, Visitors |-> <<>>, TotalPageViews |-> 0,
     DistinctVisitors |-> 0, FirstVisit |-> 0, LastVisit |-> 0,
     CreatedAt |-> now, UpdatedAt |-> now]

\* &SystemMetrics{StartTime: now}
NewMetrics(now) ==
    [TotalEvents |-> 0, TotalUniqueURLs |-> 0, TotalUniqueVisitors |-> 0,
     StartTime |-> now, LastEventTime |-> 0]

\* a cleanup check that is only made while the scheduler runs
shouldCleanupWhileRunning(alloc, stats, cfg) ==
    cleanupStop = "open" /\ (alloc > cfg.MaxMemoryUsage \/ MapLen(stats) > cfg.MaxURLs)

\* shouldCleanup, with alloc the value read from runtime.MemStats
shouldCleanup(alloc, stats, cfg) ==
    alloc > cfg.MaxMemoryUsage \/ MapLen(stats) > cfg.MaxURLs

\* the test of performCleanup's loop body
\* an aggregate exactly at the retention window counted as stale
evictableAtWindow(st, now) ==
    st.DistinctVisitors < 2 /\ st.LastVisit <= now - RetentionHours

evictable(st, now) ==
    st.DistinctVisitors < 2 /\ st.LastVisit < now - RetentionHours

\* performCleanup: the map left after the loop
performCleanup(stats, now) ==
    [u \in { k \in DOMAIN stats : ~evictable(stats[k], now) } |-> stats[u]]

\* a field that is overwritten by whatever the event carries
overwriteAlways(stored, supplied) == supplied

\* if event.UserAgent != "" { visitor.UserAgent = event.UserAgent }, and the
\* same for the referrer
overwriteIfSupplied(stored, supplied) ==
    IF supplied # "" THEN supplied ELSE stored

\* as foldVisitor, but the distinct-visitor counter is bumped on every visit
foldVisitorCountsEveryVisit(st, ne, now) ==
    IF ne.VisitorID \notin DOMAIN st.Visitors
    THEN [st EXCEPT
            !.Visitors = (ne.VisitorID :>
                            [VisitorID |-> ne.VisitorID, FirstVisit |-> now,
                             LastVisit |-> now, VisitCount |-> 1,
                             UserAgent |-> ne.UserAgent,
                             Referrer |-> ne.Referrer]) @@ @,
            !.DistinctVisitors = @ + 1]
    ELSE [st EXCEPT
            !.Visitors[ne.VisitorID] =
                [@ EXCEPT !.LastVisit = now, !.VisitCount = @ + 1],
            !.DistinctVisitors = @ + 1]

\* the visitor branch of RecordEvent: the aggregate after the event
foldVisitor(st, ne, now) ==
    IF ne.VisitorID \notin DOMAIN st.Visitors
    THEN [st EXCEPT
            !.Visitors = (ne.VisitorID :>
                            [VisitorID |-> ne.VisitorID, FirstVisit |-> now,
                             LastVisit |-> now, VisitCount |-> 1,
                             UserAgent |-> ne.UserAgent,
                             Referrer |-> ne.Referrer]) @@ @,
            !.DistinctVisitors = @ + 1]
    ELSE [st EXCEPT
            !.Visitors[ne.VisitorID] =
                [@ EXCEPT !.LastVisit = now,
                          !.VisitCount = @ + 1,
                          !.UserAgent = overwriteIfSupplied(@, ne.UserAgent),
                          !.Referrer = overwriteIfSupplied(@, ne.Referrer)]]

\* as touchURL, but a page view is counted on the first visit only
touchURLFirstViewOnly(st, now) ==
    [st EXCEPT !.TotalPageViews = IF st.FirstVisit = 0 THEN @ + 1 ELSE @,
               !.UpdatedAt = now,
               !.FirstVisit = IF @ = 0 THEN now ELSE @,
               !.LastVisit = now]

\* the counters and timestamps updated after the visitor branch
touchURL(st, now) ==
    [st EXCEPT !.TotalPageViews = @ + 1,
               !.UpdatedAt = now,
               !.FirstVisit = IF @ = 0 THEN now ELSE @,
               !.LastVisit = now]

NoOp == [op |-> "none", ok |-> TRUE, visitor |-> <<>>, url |-> EmptyURL,
         cleanup |-> FALSE, evicted |-> {}]

NoRead == [op |-> "none", url |-> EmptyURL, limit |-> 0, ret |-> <<>>]

\* the nil pointer / nil slice a read returns
Nil == [nil |-> TRUE]

\* no aggregate handed out
NoSnap == [held |-> FALSE]

IdleUpdater == [pc |-> "idle", c |-> Nil]

IdleGetter == [pc |-> "idle", got |-> Nil]

IdleRTCaller == [pc |-> "idle"]

\* a sync.RWMutex nobody holds: its writer and its readers
FreeRWMutex == [w |-> 0, r |-> {}]

\* both locks free, every caller between calls, the cleanup goroutine in its
\* select
NoCalls ==
    [mutex |-> FreeRWMutex, responseTimeMutex |-> FreeRWMutex,
     th |-> [t \in 1..NumCallers |-> [op |-> "none", at |-> 0, calls |-> 0]],
     gc |-> "select", stop |-> "open", dead |-> FALSE]

\* ------------------------------------------------------------------------
\* monitoring.MetricsCollector, with the circular buffer of metrics.go and
\* with the slice it had before
\* ------------------------------------------------------------------------
\* const responseTimesBufferSize = 1000, scaled down so that a run of
\* MaxEvents requests fills the buffer and wraps
responseTimesBufferSize == MaxEvents - 1

RECURSIVE SumCounts(_)
SumCounts(f) ==
    IF DOMAIN f = {} THEN 0
    ELSE LET k == CHOOSE x \in DOMAIN f : TRUE
         IN  f[k] + SumCounts([x \in DOMAIN f \ {k} |-> f[x]])

\* the counters and maps both collectors keep, after one more request
countRequest(c, endpoint, responseTime, statusCode) ==
    LET old == IF endpoint \in DOMAIN c.endpointMetrics
               THEN c.endpointMetrics[endpoint]
               ELSE [RequestCount |-> 0, TotalTime |-> 0, MinTime |-> responseTime,
                     MaxTime |-> responseTime, ErrorCount |-> 0]
        new == [RequestCount |-> old.RequestCount + 1,
                TotalTime |-> old.TotalTime + responseTime,
                MinTime |-> IF responseTime < old.MinTime THEN responseTime
                            ELSE old.MinTime,
                MaxTime |-> IF responseTime > old.MaxTime THEN responseTime
                            ELSE old.MaxTime,
                ErrorCount |-> IF statusCode >= 400 THEN old.ErrorCount + 1
                               ELSE old.ErrorCount]
    IN  [c EXCEPT
            !.requestCount = @ + 1,
            !.errorCount = IF statusCode >= 400 THEN @ + 1 ELSE @,
            !.statusCodes =
                [k \in DOMAIN @ \cup {statusCode} |->
                    (IF k \in DOMAIN @ THEN @[k] ELSE 0)
                    + (IF k = statusCode THEN 1 ELSE 0)],
            !.endpointMetrics =
                [e \in DOMAIN @ \cup {endpoint} |->
                    IF e = endpoint THEN new ELSE @[e]]]

\* the buffer of metrics.go after one more response time, written over the
\* oldest one without moving on
storeResponseTimeInPlace(c, responseTime) ==
    IF c.responseCount < responseTimesBufferSize
    THEN [c EXCEPT !.responseTimes[c.responseCount] = responseTime,
                   !.responseCount = @ + 1]
    ELSE [c EXCEPT !.responseTimes[c.responseIndex] = responseTime]

\* the buffer of metrics.go after one more response time
storeResponseTime(c, responseTime) ==
    IF c.responseCount < responseTimesBufferSize
    THEN [c EXCEPT !.responseTimes[c.responseCount] = responseTime,
                   !.responseCount = @ + 1]
    ELSE [c EXCEPT !.responseTimes[c.responseIndex] = responseTime,
                   !.responseIndex = (@ + 1) % responseTimesBufferSize]

\* RecordRequest of metrics.go, from Lock to Unlock
RecordRequestCircular(c, endpoint, responseTime, statusCode) ==
    countRequest(storeResponseTime(c, responseTime),
                 endpoint, responseTime, statusCode)

\* RecordRequest of the collector with the slice
RecordRequestSlice(c, endpoint, responseTime, statusCode) ==
    LET kept == IF Len(c.responseTimes) >= responseTimesBufferSize
                THEN Tail(c.responseTimes) ELSE c.responseTimes
    IN  countRequest([c EXCEPT !.responseTimes = Append(kept, responseTime)],
                     endpoint, responseTime, statusCode)

\* the response times GetMetrics of metrics.go walks through, in its order
CircularOrder(c) ==
    LET firstIdx == IF c.responseCount < responseTimesBufferSize THEN 0
                    ELSE c.responseIndex
    IN  [i \in 1..c.responseCount |->
            c.responseTimes[(firstIdx + i - 1) % responseTimesBufferSize]]

\* the loop of GetMetrics over the response times: total, minimum, maximum
RECURSIVE foldTimes(_, _)
foldTimes(times, acc) ==
    IF times = <<>> THEN acc
    ELSE foldTimes(Tail(times),
                   [total |-> acc.total + Head(times),
                    min |-> IF Head(times) < acc.min THEN Head(times) ELSE acc.min,
                    max |-> IF Head(times) > acc.max THEN Head(times) ELSE acc.max])

\* what GetMetrics reports from the response times and the counters
MetricsOf(c, times) ==
    LET f == IF times = <<>> THEN [total |-> 0, min |-> 0, max |-> 0]
             ELSE foldTimes(times, [total |-> 0, min |-> times[1], max |-> times[1]])
    IN  [TotalRequests |-> c.requestCount,
         AverageResponseTime |-> IF times = <<>> THEN 0 ELSE f.total \div Len(times),
         MinResponseTime |-> f.min,
         MaxResponseTime |-> f.max,
         EndpointMetrics |-> c.endpointMetrics,
         StatusCodes |-> c.statusCodes]

\* GetMetrics of metrics.go
GetMetricsCircular(c) == MetricsOf(c, CircularOrder(c))

\* GetMetrics of the collector with the slice
GetMetricsSlice(c) == MetricsOf(c, c.responseTimes)

\* NewMetricsCollector and Reset of metrics.go leave this
EmptyCircular ==
    [requestCount |-> 0, errorCount |-> 0, statusCodes |-> <<>>,
     endpointMetrics |-> <<>>,
     responseTimes |-> [i \in 0..(responseTimesBufferSize - 1) |-> 0],
     responseIndex |-> 0, responseCount |-> 0]

\* NewMetricsCollector and Reset of the collector with the slice leave this
EmptySlice ==
    [requestCount |-> 0, errorCount |-> 0, statusCodes |-> <<>>,
     endpointMetrics |-> <<>>, responseTimes |-> <<>>]

\* both collectors new, the lock free, no call in progress, no call made
NewMetricsCollector ==
    [circular |-> EmptyCircular, slice |-> EmptySlice, mutex |-> 0,
     th |-> [t \in 1..NumCallers |-> [pc |-> "idle"]],
     log |-> <<>>, started |-> 0]

\* the server before NewServer: variant tells which of the two Server.Stop
\* of server.go it runs
NoServer ==
    [variant |-> "none", shutdownCh |-> "open", sig |-> FALSE,
     pc |-> [main |-> "new", direct |-> "idle"],
     stopOnce |-> "fresh", trackerStops |-> 0, closes |-> 0]

\* no handler has answered
NoResponse == [status |-> 0, code |-> "none"]

\* what an operation saw when it started
Snapshot ==
    [tuv |-> metrics.TotalUniqueVisitors,
     dv |-> [u \in URLKeys |-> IF u \in DOMAIN urlStats
                               THEN urlStats[u].DistinctVisitors ELSE 0],
     seen |-> globalVisitors]

ZeroHist == [u \in URLKeys |-> [v \in VisitorIDs |-> 0]]

\* time.NewTicker(d)
NewTicker(d) == [interval |-> d, stopped |-> FALSE, tick |-> FALSE]

\* NewNavigationTracker
Started ==
    /\ urlStats = <<>>
    /\ globalVisitors = {}
    /\ metrics = NewMetrics(Epoch)
    /\ config = DefaultConfig
    /\ requestCount = 0
    /\ responseTimes = <<>>
    /\ tickers = << NewTicker(DefaultConfig.CleanupInterval) >>
    /\ cleanupTicker = 1
    /\ cleanupStop = "open"
    /\ workers = << [pc |-> "select", ticker |-> 1] >>
    /\ clock = Epoch
    /\ updates = 0
    /\ recorded = 0
    /\ hist = ZeroHist
    /\ lastOp = NoOp
    /\ trail = <<>>
    /\ lastRead = NoRead
    /\ mutex = Free
    /\ callers = [c \in Callers |->
                    [pc |-> "idle", done |-> 0, url |-> EmptyURL,
                     isNil |-> FALSE, ptr |-> "nil"]]
    /\ cleaner = [pc |-> "select", todo |-> {}, target |-> EmptyURL, now |-> 0]
    /\ reader = [pc |-> "idle", ptrs |-> {}]
    /\ observed = [dv |-> 0, n |-> 0]
    /\ anyEvicted = FALSE
    /\ snap = NoSnap
    /\ updater = IdleUpdater
    /\ getter = IdleGetter
    /\ rtCaller = IdleRTCaller
    /\ response = NoResponse
    /\ sync = NoCalls
    /\ server = NoServer
    /\ urlVisitors = <<>>
    /\ mc = NewMetricsCollector

\* ------------------------------------------------------------------------
\* Operations (each one from Lock to Unlock)
\* ------------------------------------------------------------------------
Op(name, ok, visitor, url, cleanup, evicted) ==
    [op |-> name, ok |-> ok, visitor |-> visitor, url |-> url,
     cleanup |-> cleanup, evicted |-> evicted]

TrailOf(o) == [op |-> o, pre |-> Snapshot]

\* the bookkeeping of an operation that returns, resp being what the
\* handler that called it answers
Noted(o, resp) ==
    /\ response' = resp
    /\ lastOp' = o
    /\ trail' = IF keep = "pair"
                THEN SubSeq(Append(trail, TrailOf(o)),
                            IF Len(trail) = 2 THEN 2 ELSE 1, Len(trail) + 1)
                ELSE trail
    /\ lastRead' = NoRead
    /\ UNCHANGED <<keep, mutex, callers, cleaner, reader, observed, anyEvicted,
                   snap, updater, getter, rtCaller, sync, server, mc>>

\* the same for an operation the set-based tracker takes no part in
Answered(o, resp) ==
    /\ Noted(o, resp)
    /\ UNCHANGED urlVisitors

\* the bookkeeping of an operation called directly
Returned(o) == Answered(o, response)

\* the URL map after RecordEvent(ne) on the map stats
recordInto(stats, ne, url, now) ==
    LET created == IF url \in DOMAIN stats THEN stats
                   ELSE (url :> NewURLStats(url, now)) @@ stats
    IN  [created EXCEPT ![url] = touchURL(foldVisitor(@, ne, now), now)]

\* a visitor counted for every URL it is new on
countGlobalVisitorPerURL(total, seen, id, isNew) ==
    IF isNew THEN total + 1 ELSE total

\* TotalUniqueVisitors after a visitor new on the URL is checked against
\* nt.globalVisitors
countGlobalVisitor(total, seen, id, isNew) ==
    IF isNew /\ id \notin seen THEN total + 1 ELSE total

\* as markGlobalVisitor, but the set is started afresh for a visitor new on
\* the URL
markGlobalVisitorOnly(seen, id, isNew) ==
    IF isNew THEN {id} ELSE seen

\* nt.globalVisitors after a visitor new on the URL is entered in it
markGlobalVisitor(seen, id, isNew) ==
    IF isNew THEN seen \cup {id} ELSE seen

\* as countEvent, but the event is counted twice
countEventTwice(total) == total + 2

\* nt.metrics.TotalEvents++
countEvent(total) == total + 1

\* RecordEvent(event), alloc being what shouldCleanup reads from the runtime
\* and resp what the caller makes of the returned error
RecordEventFor(ne, alloc, resp) ==
    IF ~Validate(ne)
    THEN /\ Answered(Op("RecordEvent", FALSE, <<>>, EmptyURL, FALSE, {}), resp[FALSE])
         /\ UNCHANGED <<urlStats, globalVisitors, metrics, config, requestCount,
                        responseTimes, schedVars, clock, updates, recorded, hist>>
    ELSE LET url     == NormalizeURL(ne.URL)
             due     == shouldCleanup(alloc, urlStats, config)
             cleaned == IF due THEN performCleanup(urlStats, clock) ELSE urlStats
             evicted == DOMAIN urlStats \ DOMAIN cleaned
             isNew   == url \notin DOMAIN cleaned
                        \/ ne.VisitorID \notin DOMAIN cleaned[url].Visitors
             newStats == recordInto(cleaned, ne, url, clock)
         IN  /\ recorded < MaxEvents
             /\ urlStats' = newStats
             /\ globalVisitors' = markGlobalVisitor(globalVisitors, ne.VisitorID, isNew)
             /\ metrics' = [metrics EXCEPT
                   !.TotalUniqueVisitors =
                        countGlobalVisitor(@, globalVisitors, ne.VisitorID, isNew),
                   !.TotalEvents = countEvent(@),
                   !.LastEventTime = clock,
                   !.TotalUniqueURLs = MapLen(newStats)]
             /\ recorded' = recorded + 1
             /\ hist' = [u \in URLKeys |->
                           IF u = url
                           THEN [v \in VisitorIDs |->
                                   (IF u \in evicted THEN 0 ELSE hist[u][v])
                                   + (IF v = ne.VisitorID THEN 1 ELSE 0)]
                           ELSE IF u \in evicted THEN ZeroHist[u] ELSE hist[u]]
             /\ Noted(Op("RecordEvent", TRUE, ne.VisitorID, url, due, evicted), resp[TRUE])
             /\ urlVisitors' = IF keep = "refine"
                               THEN SimpleRecordEvent(urlVisitors, ne)
                               ELSE urlVisitors
             /\ UNCHANGED <<config, requestCount, responseTimes, schedVars,
                            clock, updates>>

\* RecordEvent(event) called directly
RecordEvent(ne, alloc) ==
    RecordEventFor(ne, alloc, [ok \in BOOLEAN |-> response])

\* respondWithError / respondWithValidationError before the store is called
Refuse(status, code) ==
    /\ response' = [status |-> status, code |-> code]
    /\ UNCHANGED <<urlStats, globalVisitors, metrics, config, requestCount,
                   responseTimes, schedVars, clock, updates, recorded, hist,
                   lastOp, trail, lastRead, keep, concVars>>

\* the event IngestHandler hands to RecordEvent: the decoded body with the
\* User-Agent and Referer headers copied in
IngestEvent(req) ==
    [req.Body EXCEPT !.UserAgent = req.UserAgent, !.Referrer = req.Referer]

\* IngestHandler: the body is validated, then the headers are copied into
\* the event, then RecordEvent validates the event again; an error returned
\* by RecordEvent is answered with 500
IngestHandler(req, alloc) ==
    IF req.Method # "POST"
    THEN Refuse(405, "METHOD_NOT_ALLOWED")
    ELSE IF req.ContentLength > 10 * 1024
    THEN Refuse(413, "REQUEST_TOO_LARGE")
    ELSE IF ~req.Decodes
    THEN Refuse(400, "INVALID_JSON")
    ELSE IF ~Validate(req.Body)
    THEN Refuse(400, "VALIDATION_ERROR")
    ELSE RecordEventFor(IngestEvent(req), alloc,
             [ok \in BOOLEAN |->
                 IF ok THEN [status |-> 201, code |-> ""]
                 ELSE [status |-> 500, code |-> "RECORDING_ERROR"]])

\* ticker t fires while no goroutine is receiving: the tick waits in the
\* channel, whose buffer holds one tick (Ticker.Stop does not drain it)
TickerFire(t) ==
    /\ t \in DOMAIN tickers
    /\ ~tickers[t].stopped
    /\ ~tickers[t].tick
    /\ tickers' = [tickers EXCEPT ![t].tick = TRUE]
    /\ UNCHANGED <<urlStats, globalVisitors, metrics, config, requestCount,
                   responseTimes, cleanupTicker, cleanupStop, workers, clock,
                   updates, recorded, hist, lastOp, trail, lastRead, keep,
                   concVars,
                   response>>

\* a tick that runs the eviction pass without the check
CleanupTickWithoutCheck(w, alloc) ==
    LET cleaned == performCleanup(urlStats, clock)
        evicted == DOMAIN urlStats \ DOMAIN cleaned
    IN  /\ w \in DOMAIN workers
        /\ workers[w].pc = "select"
        /\ ~tickers[workers[w].ticker].stopped \/ tickers[workers[w].ticker].tick
        /\ tickers' = [tickers EXCEPT ![workers[w].ticker].tick = FALSE]
        /\ urlStats' = cleaned
        /\ hist' = [u \in URLKeys |-> IF u \in evicted THEN ZeroHist[u] ELSE hist[u]]
        /\ workers' = [workers EXCEPT ![w].ticker = cleanupTicker]
        /\ Returned(Op("CleanupTick", TRUE, <<>>, EmptyURL, TRUE, evicted))
        /\ UNCHANGED <<globalVisitors, metrics, config, requestCount,
                       responseTimes, cleanupTicker, cleanupStop,
                       clock, updates, recorded>>

\* one tick served by cleanup goroutine w: the tick is delivered on the
\* ticker the goroutine waits on (or was waiting in its channel), the
\* goroutine runs the check and the pass and comes back to its select, where
\* it evaluates nt.cleanupTicker again
CleanupTick(w, alloc) ==
    LET due     == shouldCleanup(alloc, urlStats, config)
        cleaned == IF due THEN performCleanup(urlStats, clock) ELSE urlStats
        evicted == DOMAIN urlStats \ DOMAIN cleaned
    IN  /\ w \in DOMAIN workers
        /\ workers[w].pc = "select"
        /\ ~tickers[workers[w].ticker].stopped \/ tickers[workers[w].ticker].tick
        /\ tickers' = [tickers EXCEPT ![workers[w].ticker].tick = FALSE]
        /\ urlStats' = cleaned
        /\ hist' = [u \in URLKeys |-> IF u \in evicted THEN ZeroHist[u] ELSE hist[u]]
        /\ workers' = [workers EXCEPT ![w].ticker = cleanupTicker]
        /\ Returned(Op("CleanupTick", TRUE, <<>>, EmptyURL, due, evicted))
        /\ UNCHANGED <<globalVisitors, metrics, config, requestCount,
                       responseTimes, cleanupTicker, cleanupStop,
                       clock, updates, recorded>>

\* cleanup goroutine w takes the stop case of its select
WorkerStop(w) ==
    /\ w \in DOMAIN workers
    /\ workers[w].pc = "select"
    /\ cleanupStop = "closed"
    /\ tickers' = [tickers EXCEPT ![cleanupTicker].stopped = TRUE]
    /\ workers' = [workers EXCEPT ![w].pc = "done"]
    /\ UNCHANGED <<urlStats, globalVisitors, metrics, config, requestCount,
                   responseTimes, cleanupTicker, cleanupStop, clock, updates,
                   recorded, hist, lastOp, trail, lastRead, keep, concVars,
                   response>>

\* a Stop that also drops the aggregates
StopDropsAggregates ==
    /\ cleanupStop' = "closed"
    /\ urlStats' = <<>>
    /\ Returned(Op("Stop", cleanupStop = "open", <<>>, EmptyURL, FALSE, {}))
    /\ UNCHANGED <<globalVisitors, metrics, config, requestCount,
                   responseTimes, tickers, cleanupTicker, workers, clock,
                   updates, recorded, hist>>

\* Stop(): close(nt.cleanupStop); closing a closed channel panics
Stop ==
    /\ cleanupStop' = "closed"
    /\ Returned(Op("Stop", cleanupStop = "open", <<>>, EmptyURL, FALSE, {}))
    /\ UNCHANGED <<urlStats, globalVisitors, metrics, config, requestCount,
                   responseTimes, tickers, cleanupTicker, workers, clock,
                   updates, recorded, hist>>

\* UpdateConfiguration(c); time.NewTicker panics on a non-positive interval,
\* after the configuration is replaced and the old ticker stopped
UpdateConfiguration(c) ==
    LET stoppedOld == [tickers EXCEPT ![cleanupTicker].stopped = TRUE]
        panics     == c.CleanupInterval <= 0
    IN  /\ updates < MaxUpdates
        /\ updates' = updates + 1
        /\ config' = c
        /\ IF panics
           THEN /\ tickers' = stoppedOld
                /\ UNCHANGED <<cleanupTicker, workers>>
           ELSE /\ tickers' = Append(stoppedOld, NewTicker(c.CleanupInterval))
                /\ cleanupTicker' = Len(tickers) + 1
                /\ workers' = Append(workers,
                                 [pc |-> "select", ticker |-> Len(tickers) + 1])
        /\ Returned(Op("UpdateConfiguration", ~panics, <<>>, EmptyURL, FALSE, {}))
        /\ UNCHANGED <<urlStats, globalVisitors, metrics, requestCount,
                       responseTimes, cleanupStop, clock, recorded, hist>>

\* a Reset that keeps the global visitor set
ResetKeepsGlobalVisitors ==
    /\ urlStats' = <<>>
    /\ globalVisitors' = globalVisitors
    /\ metrics' = NewMetrics(clock)
    /\ responseTimes' = <<>>
    /\ requestCount' = 0
    /\ hist' = ZeroHist
    /\ Returned(Op("Reset", TRUE, <<>>, EmptyURL, FALSE, {}))
    /\ UNCHANGED <<config, schedVars, clock, updates, recorded>>

\* Reset()
Reset ==
    /\ urlStats' = <<>>
    /\ globalVisitors' = {}
    /\ metrics' = NewMetrics(clock)
    /\ responseTimes' = <<>>
    /\ requestCount' = 0
    /\ hist' = ZeroHist
    /\ Returned(Op("Reset", TRUE, <<>>, EmptyURL, FALSE, {}))
    /\ UNCHANGED <<config, schedVars, clock, updates, recorded>>

\* time passes: 24 or 25 hours
AdvanceClock(d) ==
    /\ clock + d <= MaxClock
    /\ clock' = clock + d
    /\ lastRead' = NoRead
    /\ UNCHANGED <<urlStats, globalVisitors, metrics, config, requestCount,
                   responseTimes, schedVars, updates, recorded, hist,
                   lastOp, trail, keep, concVars,
                   response>>

\* a count of the page views instead of the distinct visitors
GetDistinctVisitorsCountsViews(url) ==
    IF url \in DOMAIN urlStats THEN urlStats[url].TotalPageViews ELSE 0

\* ------------------------------------------------------------------------
\* Read operations (each one from RLock to RUnlock)
\* ------------------------------------------------------------------------
GetDistinctVisitors(url) ==
    IF url \in DOMAIN urlStats THEN urlStats[url].DistinctVisitors ELSE 0

\* a summary that is nil for a URL not in the map
GetVisitorStatsNilWhenAbsent(url) ==
    IF url \in DOMAIN urlStats
    THEN [URL |-> urlStats[url].URL,
          DistinctVisitors |-> urlStats[url].DistinctVisitors,
          TotalPageViews |-> urlStats[url].TotalPageViews,
          LastUpdated |-> urlStats[url].UpdatedAt,
          FirstVisit |-> urlStats[url].FirstVisit,
          LastVisit |-> urlStats[url].LastVisit]
    ELSE Nil

GetVisitorStats(url) ==
    IF url \in DOMAIN urlStats
    THEN [URL |-> urlStats[url].URL,
          DistinctVisitors |-> urlStats[url].DistinctVisitors,
          TotalPageViews |-> urlStats[url].TotalPageViews,
          LastUpdated |-> urlStats[url].UpdatedAt,
          FirstVisit |-> urlStats[url].FirstVisit,
          LastVisit |-> urlStats[url].LastVisit]
    ELSE [URL |-> url, DistinctVisitors |-> 0, TotalPageViews |-> 0,
          LastUpdated |-> clock, FirstVisit |-> 0, LastVisit |-> 0]

\* the copy has the field values of the stored aggregate and of its visitors
GetDetailedURLStats(url) ==
    IF url \in DOMAIN urlStats
    THEN [URL |-> urlStats[url].URL,
          Visitors |-> [k \in DOMAIN urlStats[url].Visitors |->
                          [VisitorID |-> urlStats[url].Visitors[k].VisitorID,
                           FirstVisit |-> urlStats[url].Visitors[k].FirstVisit,
                           LastVisit |-> urlStats[url].Visitors[k].LastVisit,
                           VisitCount |-> urlStats[url].Visitors[k].VisitCount,
                           UserAgent |-> urlStats[url].Visitors[k].UserAgent,
                           Referrer |-> urlStats[url].Visitors[k].Referrer]],
          TotalPageViews |-> urlStats[url].TotalPageViews,
          DistinctVisitors |-> urlStats[url].DistinctVisitors,
          FirstVisit |-> urlStats[url].FirstVisit,
          LastVisit |-> urlStats[url].LastVisit,
          CreatedAt |-> urlStats[url].CreatedAt,
          UpdatedAt |-> urlStats[url].UpdatedAt]
    ELSE Nil

\* GetConfiguration()
GetConfiguration == config

\* a copy whose map holds the stored VisitorInfo pointers
SharedWithStoreShallow(url) ==
    DOMAIN urlStats[url].Visitors

\* the visitors whose record in the map returned by GetDetailedURLStats is
\* the object the store holds: visitors[k] = &VisitorInfo{...} allocates a
\* record for every key and make() a map, so none is
SharedWithStore(url) ==
    {}

\* a caller takes GetDetailedURLStats(url) and keeps the result
TakeSnapshot(url) ==
    /\ GetDetailedURLStats(url) # Nil
    /\ snap' = [held |-> TRUE, url |-> url,
                stats |-> GetDetailedURLStats(url),
                taken |-> GetDetailedURLStats(url),
                shared |-> SharedWithStore(url)]
    /\ lastRead' = NoRead
    /\ UNCHANGED <<urlStats, globalVisitors, metrics, config, requestCount,
                   responseTimes, schedVars, clock, updates, recorded, hist,
                   lastOp, trail, keep, mutex, callers, cleaner, reader,
                   observed, anyEvicted, updater, getter, rtCaller, response, sync, server,
                   urlVisitors, mc>>

\* the visitor v of the aggregate the caller holds is the stored object
SharesObject(v) ==
    /\ v \in snap.shared
    /\ snap.url \in DOMAIN urlStats
    /\ v \in DOMAIN urlStats[snap.url].Visitors

\* the caller writes to the aggregate it holds: it zeroes DistinctVisitors
\* and the VisitCount of visitor v
MutateSnapshot(v) ==
    LET zeroed(st) == [st EXCEPT !.DistinctVisitors = 0,
                                 !.Visitors[v].VisitCount = 0]
    IN  /\ snap.held
        /\ v \in DOMAIN snap.stats.Visitors
        /\ snap.stats.Visitors[v].VisitCount # 0
        /\ snap' = [snap EXCEPT !.stats = zeroed(@), !.taken = zeroed(@)]
        /\ urlStats' = IF SharesObject(v)
                       THEN [urlStats EXCEPT ![snap.url].Visitors[v].VisitCount = 0]
                       ELSE urlStats
        /\ lastRead' = NoRead
        /\ UNCHANGED <<globalVisitors, metrics, config, requestCount,
                       responseTimes, schedVars, clock, updates, recorded, hist,
                       lastOp, trail, keep, mutex, callers, cleaner, reader,
                       observed, anyEvicted, updater, getter, rtCaller, response, sync, server,
                   urlVisitors, mc>>

\* what the caller reads in the aggregate it holds
SnapView ==
    [snap.stats EXCEPT !.Visitors =
        [v \in DOMAIN @ |-> IF SharesObject(v)
                            THEN urlStats[snap.url].Visitors[v] ELSE @[v]]]

\* a Go slice: nil (never appended to, of length 0) or its elements
NilSlice == [isNil |-> TRUE, items |-> <<>>]

Slice(seq) == [isNil |-> FALSE, items |-> seq]

\* the orders in which ranging over a map can append its keys
Orderings(S) ==
    { f \in [1..Cardinality(S) -> S] :
        \A i, j \in 1..Cardinality(S) : i # j => f[i] # f[j] }

\* a sort that leaves the elements in any order
SortOutcomesUnsorted(S, key) ==
    Orderings(S)

\* sort.Slice with less(i, j) = key[i] > key[j]: the sort is not stable, so
\* elements with equal keys come out in any order
SortOutcomes(S, key) ==
    { f \in Orderings(S) :
        \A i \in 1..(Cardinality(S) - 1) : key[f[i]] >= key[f[i + 1]] }

\* a truncation that keeps the last limit elements
TruncateKeepsTail(seq, limit) ==
    IF limit > 0 /\ limit < Len(seq)
    THEN SubSeq(seq, Len(seq) - limit + 1, Len(seq)) ELSE seq

\* list[:limit] if limit > 0 && limit < len(list), else list
Truncate(seq, limit) ==
    IF limit > 0 /\ limit < Len(seq) THEN SubSeq(seq, 1, limit) ELSE seq

\* the slices GetTopURLs(limit) may return
GetTopURLs(limit) ==
    LET byDistinctVisitors ==
            [u \in DOMAIN urlStats |-> urlStats[u].DistinctVisitors]
    IN  IF urlStats = <<>> THEN { NilSlice }
        ELSE { Slice(Truncate([i \in DOMAIN f |-> urlStats[f[i]]], limit)) :
                 f \in SortOutcomes(DOMAIN urlStats, byDistinctVisitors) }

\* the slices GetTopVisitors(url, limit) may return
GetTopVisitors(url, limit) ==
    IF url \notin DOMAIN urlStats THEN { NilSlice }
    ELSE LET visitors == urlStats[url].Visitors
             byVisitCount == [v \in DOMAIN visitors |-> visitors[v].VisitCount]
         IN  IF visitors = <<>> THEN { NilSlice }
             ELSE { Slice(Truncate([i \in DOMAIN f |-> visitors[f[i]]], limit)) :
                      f \in SortOutcomes(DOMAIN visitors, byVisitCount) }

\* GetSystemMetrics(): the counters of nt.metrics as they stand (MemoryUsage
\* and Uptime, read from the runtime and the clock, are left out)
GetSystemMetrics ==
    [TotalEvents |-> metrics.TotalEvents,
     TotalUniqueURLs |-> metrics.TotalUniqueURLs,
     TotalUniqueVisitors |-> metrics.TotalUniqueVisitors,
     LastEventTime |-> metrics.LastEventTime]

\* a caller reads GetTopURLs(limit)
ReadTopURLs(limit) ==
    /\ \E r \in GetTopURLs(limit) :
          lastRead' = [op |-> "GetTopURLs", url |-> EmptyURL, limit |-> limit,
                       ret |-> r]
    /\ UNCHANGED <<urlStats, globalVisitors, metrics, config, requestCount,
                   responseTimes, schedVars, clock, updates, recorded, hist,
                   lastOp, trail, keep, concVars,
                   response>>

\* a caller reads GetTopVisitors(url, limit)
ReadTopVisitors(url, limit) ==
    /\ \E r \in GetTopVisitors(url, limit) :
          lastRead' = [op |-> "GetTopVisitors", url |-> url, limit |-> limit,
                       ret |-> r]
    /\ UNCHANGED <<urlStats, globalVisitors, metrics, config, requestCount,
                   responseTimes, schedVars, clock, updates, recorded, hist,
                   lastOp, trail, keep, concVars,
                   response>>

\* a caller reads one of the three per-URL operations
ReadURL(name, url) ==
    /\ lastRead' = [op |-> name, url |-> url, limit |-> 0,
                    ret |-> CASE name = "GetDistinctVisitors" -> GetDistinctVisitors(url)
                              [] name = "GetVisitorStats" -> GetVisitorStats(url)
                              [] name = "GetDetailedURLStats" -> GetDetailedURLStats(url)]
    /\ UNCHANGED <<urlStats, globalVisitors, metrics, config, requestCount,
                   responseTimes, schedVars, clock, updates, recorded, hist,
                   lastOp, trail, keep, concVars,
                   response>>

\* ------------------------------------------------------------------------
\* Concurrent callers, statement by statement
\* ------------------------------------------------------------------------
Digits == <<"1", "2", "3", "4">>

\* the i-th event of caller c: visitor identifiers pairwise distinct, the
\* URLs alternating between two pages
ConcEvent(c, i) ==
    MkEvent(<<"g", Digits[c], "e", Digits[i]>>,
            IF (c + i) % 2 = 0 THEN Page1Upper ELSE Page2, "", "")

\* the event caller c is recording
Current(c) == ConcEvent(c, callers[c].done + 1)

\* nt.mutex.Lock() returns
CanLock(m) == m = Free

\* nt.mutex.RLock() returns: no writer holds the lock
CanRLock(m) == m = Free

\* the pointer caller c holds still names the aggregate in the map
Attached(c) ==
    callers[c].ptr = "attached" /\ callers[c].url \in DOMAIN urlStats

\* urlStats.Visitors[event.VisitorID] = &VisitorInfo{...}
insertVisitor(st, ne, now) ==
    [st EXCEPT !.Visitors =
        (ne.VisitorID :> [VisitorID |-> ne.VisitorID, FirstVisit |-> now,
                          LastVisit |-> now, VisitCount |-> 1,
                          UserAgent |-> ne.UserAgent,
                          Referrer |-> ne.Referrer]) @@ @]

IdleCaller ==
    [pc |-> "idle", done |-> 0, url |-> EmptyURL, isNil |-> FALSE, ptr |-> "nil"]

\* Lock, Validate, NormalizeURL, shouldCleanup and performCleanup, then the
\* test nt.urlStats[event.URL] == nil
CallerLock(c, alloc) ==
    LET due     == shouldCleanup(alloc, urlStats, config)
        cleaned == IF due THEN performCleanup(urlStats, clock) ELSE urlStats
        gone    == DOMAIN urlStats \ DOMAIN cleaned
        url     == NormalizeURL(Current(c).URL)
    IN  /\ callers[c].pc = "idle"
        /\ callers[c].done < EventsPerCaller
        /\ CanLock(mutex)
        /\ IF ~Validate(Current(c))
           THEN /\ callers' = [callers EXCEPT ![c].done = @ + 1]
                /\ UNCHANGED <<mutex, urlStats, reader, anyEvicted>>
           ELSE /\ mutex' = c
                /\ urlStats' = cleaned
                /\ anyEvicted' = (anyEvicted \/ gone # {})
                /\ reader' = [reader EXCEPT !.ptrs = @ \ gone]
                /\ callers' = [callers EXCEPT
                                 ![c].pc = "create",
                                 ![c].url = url,
                                 ![c].isNil = url \notin DOMAIN cleaned]
        /\ UNCHANGED <<globalVisitors, metrics, config, clock, seqVars,
                       cleaner, observed>>

\* nt.urlStats[event.URL] = &URLStats{...} when the test found nil, then
\* urlStats := nt.urlStats[event.URL], the test
\* urlStats.Visitors[event.VisitorID] == nil and the statement after it:
\* the new VisitorInfo is stored, or the known visitor is updated.  When
\* the aggregate was deleted after the first test urlStats is nil: the call
\* panics and the deferred Unlock runs
CallerCreate(c) ==
    LET url     == callers[c].url
        ne      == Current(c)
        created == IF callers[c].isNil
                   THEN (url :> NewURLStats(url, clock)) @@ urlStats
                   ELSE urlStats
        new     == ne.VisitorID \notin DOMAIN created[url].Visitors
    IN  /\ callers[c].pc = "create"
        /\ IF url \notin DOMAIN created
           THEN /\ callers' = [callers EXCEPT ![c].pc = "panicked"]
                /\ mutex' = Free
                /\ UNCHANGED urlStats
           ELSE /\ callers' = [callers EXCEPT
                                 ![c].pc = IF new THEN "count" ELSE "finish",
                                 ![c].ptr = "attached"]
                /\ urlStats' =
                      IF new
                      THEN [created EXCEPT ![url] = insertVisitor(@, ne, clock)]
                      ELSE [created EXCEPT ![url] = foldVisitor(@, ne, clock)]
                /\ UNCHANGED mutex
        /\ UNCHANGED <<globalVisitors, metrics, config, clock, seqVars, cleaner,
                       reader, observed, anyEvicted>>

\* urlStats.DistinctVisitors++ and the check against nt.globalVisitors for
\* a new visitor, the page-view counter and timestamps, the metrics, the
\* deferred Unlock.  An aggregate deleted from the map after the pointer was
\* taken is written to outside the store
CallerFinish(c) ==
    LET url == callers[c].url
        id  == Current(c).VisitorID
        new == callers[c].pc = "count"
        counted  == IF new
                    THEN [urlStats EXCEPT ![url].DistinctVisitors = @ + 1]
                    ELSE urlStats
        newStats == IF Attached(c)
                    THEN [counted EXCEPT ![url] = touchURL(@, clock)]
                    ELSE urlStats
    IN  /\ callers[c].pc \in {"count", "finish"}
        /\ urlStats' = newStats
        /\ globalVisitors' = markGlobalVisitor(globalVisitors, id, new)
        /\ metrics' = [metrics EXCEPT
                         !.TotalUniqueVisitors =
                              countGlobalVisitor(@, globalVisitors, id, new),
                         !.TotalEvents = countEvent(@),
                         !.LastEventTime = clock,
                         !.TotalUniqueURLs = MapLen(newStats)]
        /\ mutex' = Free
        /\ callers' = [callers EXCEPT
                         ![c] = [IdleCaller EXCEPT !.done = callers[c].done + 1]]
        /\ UNCHANGED <<config, clock, seqVars, cleaner, reader, observed,
                       anyEvicted>>

IdleCleaner == [pc |-> "select", todo |-> {}, target |-> EmptyURL, now |-> 0]

\* the cleaner after it is done with aggregate u of its range
CleanerNext(u) ==
    IF cleaner.todo \ {u} = {} THEN IdleCleaner
    ELSE [cleaner EXCEPT !.pc = "range", !.todo = @ \ {u}, !.target = EmptyURL]

\* the cleanup goroutine receives a tick and evaluates shouldCleanup; when
\* it is true performCleanup takes the cutoff time and starts to range over
\* nt.urlStats.  The goroutine takes no lock
CleanerCheck(alloc) ==
    /\ cleaner.pc = "select"
    /\ ~tickers[cleanupTicker].stopped
    /\ cleaner' = IF shouldCleanup(alloc, urlStats, config) /\ urlStats # <<>>
                  THEN [pc |-> "range", todo |-> DOMAIN urlStats,
                        target |-> EmptyURL, now |-> clock]
                  ELSE cleaner
    /\ UNCHANGED <<storeVars, config, clock, seqVars, mutex, callers, reader,
                   observed, anyEvicted>>

\* the loop body's condition on one aggregate; after the last aggregate
\* runtime.GC() and back to the select
CleanerVisit(u) ==
    /\ cleaner.pc = "range"
    /\ u \in cleaner.todo
    /\ cleaner' = IF u \in DOMAIN urlStats /\ evictable(urlStats[u], cleaner.now)
                  THEN [cleaner EXCEPT !.pc = "delete", !.target = u]
                  ELSE CleanerNext(u)
    /\ UNCHANGED <<storeVars, config, clock, seqVars, mutex, callers, reader,
                   observed, anyEvicted>>

\* delete(nt.urlStats, url): pointers to the aggregate taken before no
\* longer name anything in the map
CleanerDelete ==
    LET u == cleaner.target
    IN  /\ cleaner.pc = "delete"
        /\ urlStats' = [k \in DOMAIN urlStats \ {u} |-> urlStats[k]]
        /\ anyEvicted' = (anyEvicted \/ u \in DOMAIN urlStats)
        /\ callers' = [c \in Callers |->
                         IF callers[c].ptr = "attached" /\ callers[c].url = u
                         THEN [callers[c] EXCEPT !.ptr = "detached"]
                         ELSE callers[c]]
        /\ reader' = [reader EXCEPT !.ptrs = @ \ {u}]
        /\ cleaner' = CleanerNext(u)
        /\ UNCHANGED <<globalVisitors, metrics, config, clock, seqVars, mutex,
                       observed>>

\* the Go runtime detects the map being ranged over or deleted from by the
\* cleanup goroutine while a caller writes it, and ends the process
\* ("fatal error: concurrent map iteration and map write")
RuntimeFatal ==
    /\ cleaner.pc \in {"range", "delete"}
    /\ \E c \in Callers : callers[c].pc \in {"create", "count", "finish"}
    /\ callers' = [c \in Callers |-> [callers[c] EXCEPT !.pc = "dead"]]
    /\ cleaner' = [cleaner EXCEPT !.pc = "dead"]
    /\ reader' = [pc |-> "dead", ptrs |-> {}]
    /\ UNCHANGED <<storeVars, config, clock, seqVars, mutex, observed,
                   anyEvicted>>

\* the slices GetTopURLs(limit) may return, as sets of aggregates: the first
\* limit of the aggregates sorted by DistinctVisitors, largest first
TopURLs(limit) ==
    LET n    == MapLen(urlStats)
        size == IF limit > 0 /\ limit < n THEN limit ELSE n
    IN  { S \in SUBSET DOMAIN urlStats :
            /\ Cardinality(S) = size
            /\ \A a \in S, b \in DOMAIN urlStats \ S :
                  urlStats[a].DistinctVisitors >= urlStats[b].DistinctVisitors }

NoneObserved == [dv |-> 0, n |-> 0]

\* GetTopURLs(limit) from RLock to RUnlock: the caller is handed pointers to
\* the stored aggregates
ReaderGetTopURLs(limit) ==
    /\ reader.pc = "idle"
    /\ CanRLock(mutex)
    /\ urlStats # <<>>
    /\ \E S \in TopURLs(limit) : reader' = [pc |-> "holding", ptrs |-> S]
    /\ UNCHANGED <<storeVars, config, clock, seqVars, mutex, callers, cleaner,
                   observed, anyEvicted>>

\* the caller reads an aggregate it was handed (TopURLsHandler encodes it)
ReaderObserve(u) ==
    /\ reader.pc = "holding"
    /\ u \in reader.ptrs
    /\ u \in DOMAIN urlStats
    /\ observed' = [dv |-> urlStats[u].DistinctVisitors,
                    n |-> MapLen(urlStats[u].Visitors)]
    /\ reader' = [pc |-> "seen", ptrs |-> {}]
    /\ UNCHANGED <<storeVars, config, clock, seqVars, mutex, callers, cleaner,
                   anyEvicted>>

\* GetDetailedURLStats(url) from RLock to RUnlock: the caller reads the copy
ReaderGetDetailedURLStats(url) ==
    /\ reader.pc = "idle"
    /\ CanRLock(mutex)
    /\ GetDetailedURLStats(url) # Nil
    /\ observed' = [dv |-> GetDetailedURLStats(url).DistinctVisitors,
                    n |-> MapLen(GetDetailedURLStats(url).Visitors)]
    /\ reader' = [pc |-> "seen", ptrs |-> {}]
    /\ UNCHANGED <<storeVars, config, clock, seqVars, mutex, callers, cleaner,
                   anyEvicted>>

\* the caller drops what it was handed
ReaderRelease ==
    /\ reader.pc \in {"holding", "seen"}
    /\ reader' = [pc |-> "idle", ptrs |-> {}]
    /\ observed' = NoneObserved
    /\ UNCHANGED <<storeVars, config, clock, seqVars, mutex, callers, cleaner,
                   anyEvicted>>

\* ------------------------------------------------------------------------
\* Live reconfiguration, statement by statement
\* ------------------------------------------------------------------------
\* the variables no step of a reconfiguration, of GetConfiguration, of
\* RecordResponseTime or of the cleanup goroutine's loop touches
restVars == <<clock, recorded, trail, lastRead, keep, callers, cleaner, reader,
              observed, anyEvicted, snap, response, sync, server, urlVisitors,
              mc>>

\* the holder of nt.mutex while UpdateConfiguration runs
UpdaterId == NumCallers + 1

\* UpdateConfiguration(c): nt.mutex.Lock() returns
UpdaterLock(c) ==
    /\ updater.pc = "idle"
    /\ updates < MaxUpdates
    /\ CanLock(mutex)
    /\ mutex' = UpdaterId
    /\ updates' = updates + 1
    /\ updater' = [pc |-> "assign", c |-> c]
    /\ UNCHANGED <<restVars, storeVars, hist, config, requestCount,
                   responseTimes, schedVars, lastOp, getter, rtCaller>>

\* nt.config = config
UpdaterAssign ==
    /\ updater.pc = "assign"
    /\ config' = updater.c
    /\ updater' = [updater EXCEPT !.pc = "stop"]
    /\ UNCHANGED <<restVars, storeVars, hist, requestCount, responseTimes,
                   schedVars, updates, lastOp, mutex, getter, rtCaller>>

\* if nt.cleanupTicker != nil { nt.cleanupTicker.Stop() }
UpdaterStopOld ==
    /\ updater.pc = "stop"
    /\ tickers' = [tickers EXCEPT ![cleanupTicker].stopped = TRUE]
    /\ updater' = [updater EXCEPT !.pc = "new"]
    /\ UNCHANGED <<restVars, storeVars, hist, config, requestCount,
                   responseTimes, cleanupTicker, cleanupStop, workers, updates,
                   lastOp, mutex, getter, rtCaller>>

\* nt.cleanupTicker = time.NewTicker(nt.config.CleanupInterval); NewTicker
\* panics on a non-positive interval, the deferred Unlock runs and the call
\* ends
UpdaterNewTicker ==
    /\ updater.pc = "new"
    /\ IF config.CleanupInterval <= 0
       THEN /\ mutex' = Free
            /\ updater' = IdleUpdater
            /\ lastOp' = Op("UpdateConfiguration", FALSE, <<>>, EmptyURL, FALSE, {})
            /\ UNCHANGED <<tickers, cleanupTicker>>
       ELSE /\ tickers' = Append(tickers, NewTicker(config.CleanupInterval))
            /\ cleanupTicker' = Len(tickers) + 1
            /\ updater' = [updater EXCEPT !.pc = "go"]
            /\ UNCHANGED <<mutex, lastOp>>
    /\ UNCHANGED <<restVars, storeVars, hist, config, requestCount,
                   responseTimes, cleanupStop, workers, updates, getter,
                   rtCaller>>

\* go func() {...}() and the deferred Unlock: the new goroutine starts at the
\* top of its loop
UpdaterGo ==
    /\ updater.pc = "go"
    /\ workers' = Append(workers, [pc |-> "eval", ticker |-> cleanupTicker])
    /\ mutex' = Free
    /\ updater' = IdleUpdater
    /\ lastOp' = Op("UpdateConfiguration", TRUE, <<>>, EmptyURL, FALSE, {})
    /\ UNCHANGED <<restVars, storeVars, hist, config, requestCount,
                   responseTimes, tickers, cleanupTicker, cleanupStop, updates,
                   getter, rtCaller>>

\* a caller enters GetConfiguration
GetterCall ==
    /\ getter.pc = "idle"
    /\ getter' = [getter EXCEPT !.pc = "read"]
    /\ UNCHANGED <<restVars, storeVars, hist, config, requestCount,
                   responseTimes, schedVars, updates, lastOp, mutex, updater,
                   rtCaller>>

\* return nt.config
GetterReturn ==
    /\ getter.pc = "read"
    /\ getter' = [pc |-> "idle", got |-> GetConfiguration]
    /\ UNCHANGED <<restVars, storeVars, hist, config, requestCount,
                   responseTimes, schedVars, updates, lastOp, mutex, updater,
                   rtCaller>>

\* a caller enters RecordResponseTime
RTCall ==
    /\ rtCaller.pc = "idle"
    /\ requestCount < MaxEvents
    /\ rtCaller' = [pc |-> "read"]
    /\ UNCHANGED <<restVars, storeVars, hist, config, requestCount,
                   responseTimes, schedVars, updates, lastOp, mutex, updater,
                   getter>>

\* if !nt.config.EnableMetrics { return }, then under nt.responseTimeMutex
\* the count, the append and the cut to the last 1000 durations
RTRecord(duration) ==
    LET appended == Append(responseTimes, duration)
    IN  /\ rtCaller.pc = "read"
        /\ rtCaller' = IdleRTCaller
        /\ IF ~config.EnableMetrics
           THEN UNCHANGED <<requestCount, responseTimes>>
           ELSE /\ requestCount' = requestCount + 1
                /\ responseTimes' =
                      IF Len(appended) > 1000
                      THEN SubSeq(appended, Len(appended) - 999, Len(appended))
                      ELSE appended
        /\ UNCHANGED <<restVars, storeVars, hist, config, schedVars, updates,
                       lastOp, mutex, updater, getter>>

\* RecordEvent from Lock to Unlock, started when nt.mutex.Lock() returns
LockedRecordEvent(ne, alloc) ==
    /\ CanLock(mutex)
    /\ RecordEvent(ne, alloc)

\* cleanup goroutine w enters its select: it evaluates nt.cleanupTicker.C
WorkerEval(w) ==
    /\ w \in DOMAIN workers
    /\ workers[w].pc = "eval"
    /\ workers' = [workers EXCEPT ![w] = [pc |-> "select", ticker |-> cleanupTicker]]
    /\ UNCHANGED <<restVars, storeVars, hist, config, requestCount,
                   responseTimes, tickers, cleanupTicker, cleanupStop, updates,
                   lastOp, mutex, updater, getter, rtCaller>>

\* cleanup goroutine w receives a tick from the channel it waits on
WorkerReceive(w) ==
    /\ w \in DOMAIN workers
    /\ workers[w].pc = "select"
    /\ ~tickers[workers[w].ticker].stopped \/ tickers[workers[w].ticker].tick
    /\ tickers' = [tickers EXCEPT ![workers[w].ticker].tick = FALSE]
    /\ workers' = [workers EXCEPT ![w].pc = "check"]
    /\ UNCHANGED <<restVars, storeVars, hist, config, requestCount,
                   responseTimes, cleanupTicker, cleanupStop, updates, lastOp,
                   mutex, updater, getter, rtCaller>>

\* if nt.shouldCleanup() { nt.performCleanup() }, without nt.mutex, and back
\* to the top of the loop
WorkerCheck(w, alloc) ==
    LET due     == shouldCleanup(alloc, urlStats, config)
        cleaned == IF due THEN performCleanup(urlStats, clock) ELSE urlStats
        evicted == DOMAIN urlStats \ DOMAIN cleaned
    IN  /\ w \in DOMAIN workers
        /\ workers[w].pc = "check"
        /\ urlStats' = cleaned
        /\ hist' = [u \in URLKeys |-> IF u \in evicted THEN ZeroHist[u] ELSE hist[u]]
        /\ workers' = [workers EXCEPT ![w].pc = "eval"]
        /\ lastOp' = Op("CleanupTick", TRUE, <<>>, EmptyURL, due, evicted)
        /\ UNCHANGED <<restVars, globalVisitors, metrics, config, requestCount,
                       responseTimes, tickers, cleanupTicker, cleanupStop,
                       updates, mutex, updater, getter, rtCaller>>

\* one read or write of nt.config or nt.cleanupTicker a thread is about to
\* make, and whether the thread holds nt.mutex while it makes it
Access(who, id, loc, write, lock) ==
    [who |-> who, id |-> id, loc |-> loc, write |-> write, lock |-> lock]

\* the accesses that are the next statement of some thread
PendingAccesses ==
    LET held == mutex = UpdaterId
    IN  (IF updater.pc = "assign"
         THEN {Access("UpdateConfiguration", 0, "config", TRUE, held)} ELSE {})
        \cup
        (IF updater.pc = "stop"
         THEN {Access("UpdateConfiguration", 0, "cleanupTicker", FALSE, held)}
         ELSE {})
        \cup
        (IF updater.pc = "new"
         THEN {Access("UpdateConfiguration", 0, "config", FALSE, held)} \cup
              (IF config.CleanupInterval > 0
               THEN {Access("UpdateConfiguration", 0, "cleanupTicker", TRUE, held)}
               ELSE {})
         ELSE {})
        \cup
        (IF getter.pc = "read"
         THEN {Access("GetConfiguration", 0, "config", FALSE, FALSE)} ELSE {})
        \cup
        (IF rtCaller.pc = "read"
         THEN {Access("RecordResponseTime", 0, "config", FALSE, FALSE)} ELSE {})
        \cup
        (IF CanLock(mutex) /\ recorded < MaxEvents
         THEN {Access("RecordEvent", 0, "config", FALSE, TRUE)} ELSE {})
        \cup
        { Access("cleanup", w, "cleanupTicker", FALSE, FALSE) :
            w \in { x \in DOMAIN workers :
                      \/ workers[x].pc = "eval"
                      \/ workers[x].pc = "select" /\ cleanupStop = "closed" } }
        \cup
        { Access("cleanup", w, "config", FALSE, FALSE) :
            w \in { x \in DOMAIN workers : workers[x].pc = "check" } }

\* two pending accesses of one location by two threads, one of them a write
Conflict(a, b) ==
    /\ <<a.who, a.id>> # <<b.who, b.id>>
    /\ a.loc = b.loc
    /\ a.write \/ b.write

\* ------------------------------------------------------------------------
\* Specifications
\* ------------------------------------------------------------------------
\* one cleanup goroutine at construction and one more per reconfiguration
WorkerIds == 1..(MaxUpdates + 1)

Init == Started /\ keep = "none"

\* the store under any sequence of its mutating operations
Next ==
    \/ \E ne \in Events, alloc \in AllocSamples : RecordEvent(ne, alloc)
    \/ \E w \in WorkerIds, alloc \in AllocSamples : CleanupTick(w, alloc)
    \/ \E c \in Configs : UpdateConfiguration(c)
    \/ Reset
    \/ \E d \in {24, 25} : AdvanceClock(d)

Spec == Init /\ [][Next]_vars

\* the operations that touch the aggregates, remembering the last two calls
InitHist == Started /\ keep = "pair"

NextHist ==
    \/ \E ne \in ValidEvents, alloc \in AllocSamples : RecordEvent(ne, alloc)
    \/ \E w \in WorkerIds, alloc \in AllocSamples : CleanupTick(w, alloc)
    \/ Reset
    \/ \E d \in {24, 25} : AdvanceClock(d)

SpecHist == InitHist /\ [][NextHist]_vars

\* the store with its read operations
InitRead == Started /\ keep = "read"

NextRead ==
    \/ \E ne \in ValidEvents, alloc \in AllocSamples : RecordEvent(ne, alloc)
    \/ \E w \in WorkerIds, alloc \in AllocSamples : CleanupTick(w, alloc)
    \/ Reset
    \/ \E d \in {24, 25} : AdvanceClock(d)
    \/ \E name \in {"GetDistinctVisitors", "GetVisitorStats", "GetDetailedURLStats"},
          url \in QueryURLs : ReadURL(name, url)

SpecRead == InitRead /\ [][NextRead]_vars

\* NumCallers callers record EventsPerCaller events each while the cleanup
\* goroutine ticks, a reader reads and time passes
NextConc ==
    \/ \E c \in Callers, alloc \in AllocSamples : CallerLock(c, alloc)
    \/ \E c \in Callers : CallerCreate(c)
    \/ \E c \in Callers : CallerFinish(c)
    \/ \E alloc \in AllocSamples : CleanerCheck(alloc)
    \/ \E u \in URLKeys : CleanerVisit(u)
    \/ CleanerDelete
    \/ RuntimeFatal
    \/ \E limit \in {1, 10} : ReaderGetTopURLs(limit)
    \/ \E u \in URLKeys : ReaderObserve(u)
    \/ ReaderRelease
    \/ \E url \in QueryURLs : ReaderGetDetailedURLStats(url)
    \/ \E d \in {25} : AdvanceClock(d)

SpecConc == Init /\ [][NextConc]_vars

\* every operation a caller of the store can invoke, and the ticks
InitLife == Started /\ keep = "life"

NextLife ==
    \/ \E ne \in LifeEvents, alloc \in AllocSamples : RecordEvent(ne, alloc)
    \/ \E w \in WorkerIds, alloc \in AllocSamples : CleanupTick(w, alloc)
    \/ \E c \in LifeConfigs : UpdateConfiguration(c)
    \/ Reset
    \/ Stop
    \/ \E d \in {25} : AdvanceClock(d)
    \/ \E name \in {"GetDistinctVisitors", "GetDetailedURLStats"} :
          ReadURL(name, Page1)

SpecLife == InitLife /\ [][NextLife]_vars

\* the limits a caller passes to the ranking reads
Limits == { -1, 0, 1, 2, 3 }

\* the store with its ranking reads
InitTop == Started /\ keep = "top"

NextTop ==
    \/ \E ne \in ValidEvents, alloc \in AllocSamples : RecordEvent(ne, alloc)
    \/ Reset
    \/ \E limit \in Limits : ReadTopURLs(limit)
    \/ \E url \in QueryURLs, limit \in Limits : ReadTopVisitors(url, limit)

SpecTop == InitTop /\ [][NextTop]_vars

\* the store and a caller that keeps and writes to a detailed aggregate
InitSnap == Started /\ keep = "snap"

NextSnap ==
    \/ \E ne \in ValidEvents, alloc \in AllocSamples : RecordEvent(ne, alloc)
    \/ \E w \in WorkerIds, alloc \in AllocSamples : CleanupTick(w, alloc)
    \/ Reset
    \/ \E d \in {25} : AdvanceClock(d)
    \/ \E url \in QueryURLs : TakeSnapshot(url)
    \/ \E v \in VisitorIDs : MutateSnapshot(v)

SpecSnap == InitSnap /\ [][NextSnap]_vars

\* the store fed with the spellings of one URL
InitURL == Started /\ keep = "url"

NextURL ==
    \/ \E ne \in URLEvents, alloc \in AllocSamples : RecordEvent(ne, alloc)
    \/ \E name \in {"GetDistinctVisitors"}, url \in {PathPlain, PathCase} :
          ReadURL(name, url)

SpecURL == InitURL /\ [][NextURL]_vars

\* events on the spellings of one URL, each spelling queried as submitted
InitQuery == Started /\ keep = "query"

NextQuery ==
    \/ \E ne \in URLEvents \cup SlashEvents, alloc \in AllocSamples :
          RecordEvent(ne, alloc)
    \/ \E name \in {"GetDistinctVisitors"},
          url \in PathSpellings \cup {PathCase, PathOnly, PathTwoSlashes} :
          ReadURL(name, url)

SpecQuery == InitQuery /\ [][NextQuery]_vars

\* the store and the set-based tracker, fed the same valid events, with no
\* eviction and no Reset
InitRefine == Started /\ keep = "refine"

NextRefine ==
    \/ \E ne \in RefineEvents, alloc \in AllocSamples :
          alloc <= DefaultConfig.MaxMemoryUsage /\ RecordEvent(ne, alloc)
    \/ \E name \in {"GetDistinctVisitors"},
          url \in {PathPlain, PathUpperHost, PathCase, PathQuery} :
          ReadURL(name, url)

SpecRefine == InitRefine /\ [][NextRefine]_vars

\* reconfiguration and shutdown with the tickers and the cleanup goroutines
InitSched == Started /\ keep = "sched"

NextSched ==
    \/ \E c \in LifeConfigs : UpdateConfiguration(c)
    \/ \E t \in WorkerIds : TickerFire(t)
    \/ \E w \in WorkerIds, alloc \in AllocSamples : CleanupTick(w, alloc)
    \/ Stop
    \/ \E w \in WorkerIds : WorkerStop(w)
    \/ \E alloc \in AllocSamples : RecordEvent(MkEvent(V1, Page1, "", ""), alloc)
    \/ \E d \in {25} : AdvanceClock(d)

SpecSched == InitSched /\ [][NextSched]_vars

\* the store before and after Stop(); the select of a cleanup goroutine
\* chooses among its ready cases at random, so a goroutine whose stop case
\* stays ready takes it in the end
InitStop == Started /\ keep = "stop"

NextStop ==
    \/ \E ne \in StopEvents, alloc \in AllocSamples : RecordEvent(ne, alloc)
    \/ \E w \in WorkerIds, alloc \in AllocSamples : CleanupTick(w, alloc)
    \/ \E c \in LifeConfigs : UpdateConfiguration(c)
    \/ Stop
    \/ \E w \in WorkerIds : WorkerStop(w)
    \/ \E d \in {25} : AdvanceClock(d)
    \/ \E name \in {"GetDistinctVisitors", "GetDetailedURLStats"} :
          ReadURL(name, Page1)

SpecStop ==
    /\ InitStop
    /\ [][NextStop]_vars
    /\ \A w \in WorkerIds : WF_vars(WorkerStop(w))

\* the store filling up under a configuration with a small URL budget
InitBound == Started /\ keep = "bound"

NextBound ==
    \/ \E ne \in BoundEvents, alloc \in AllocSamples : RecordEvent(ne, alloc)
    \/ \E w \in WorkerIds, alloc \in AllocSamples : CleanupTick(w, alloc)
    \/ \E c \in {TightConfig} : UpdateConfiguration(c)
    \/ \E d \in {24, 25} : AdvanceClock(d)

SpecBound == InitBound /\ [][NextBound]_vars

\* the ingestion endpoint in front of the store
InitIngest == Started /\ keep = "ingest"

NextIngest ==
    \/ \E req \in Requests, alloc \in AllocSamples : IngestHandler(req, alloc)
    \/ Reset
    \/ \E d \in {25} : AdvanceClock(d)

SpecIngest == InitIngest /\ [][NextIngest]_vars

\* repeat visits of one visitor
InitSticky == Started /\ keep = "sticky"

NextSticky ==
    \/ \E ne \in StickyEvents, alloc \in AllocSamples : RecordEvent(ne, alloc)
    \/ \E w \in WorkerIds, alloc \in AllocSamples : CleanupTick(w, alloc)
    \/ Reset
    \/ \E d \in {25} : AdvanceClock(d)

SpecSticky == InitSticky /\ [][NextSticky]_vars

\* ------------------------------------------------------------------------
\* The locks alone: which lock each operation takes, in which order, and what
\* the cleanup goroutine does without one
\* ------------------------------------------------------------------------
PlainReads ==
    {"GetDistinctVisitors", "GetVisitorStats", "GetDetailedURLStats",
     "GetTopURLs", "GetTopVisitors"}

LockOps ==
    {"RecordEvent", "GetSystemMetrics", "Reset", "UpdateConfiguration",
     "RecordResponseTime", "Stop"} \cup PlainReads

LockStep(do, on) == [do |-> do, on |-> on]

\* the lock calls and map accesses of one operation, in program order
LockScript(op) ==
    CASE op = "RecordEvent" ->
            <<LockStep("Lock", "mutex"), LockStep("mapWrite", "urlStats"),
              LockStep("Unlock", "mutex")>>
      [] op \in PlainReads ->
            <<LockStep("RLock", "mutex"), LockStep("mapRead", "urlStats"),
              LockStep("RUnlock", "mutex")>>
      [] op = "GetSystemMetrics" ->
            <<LockStep("RLock", "mutex"), LockStep("RLock", "responseTimeMutex"),
              LockStep("RUnlock", "responseTimeMutex"),
              LockStep("RUnlock", "mutex")>>
      [] op = "Reset" ->
            <<LockStep("Lock", "mutex"), LockStep("Lock", "responseTimeMutex"),
              LockStep("Unlock", "responseTimeMutex"),
              LockStep("Unlock", "mutex")>>
      [] op = "UpdateConfiguration" ->
            <<LockStep("Lock", "mutex"), LockStep("Unlock", "mutex")>>
      [] op = "RecordResponseTime" ->
            <<LockStep("Lock", "responseTimeMutex"),
              LockStep("Unlock", "responseTimeMutex")>>
      [] op = "Stop" -> <<LockStep("close", "cleanupStop")>>

\* the step caller t is about to take, given that it is inside a call
NextLockStep(t) == LockScript(sync.th[t].op)[sync.th[t].at]

InCall(t) == sync.th[t].at > 0

\* sync.RWMutex: Lock waits for the writer and all readers to leave, RLock for
\* the writer
CanLockStep(t) ==
    /\ InCall(t)
    /\ LET st == NextLockStep(t) IN
          CASE st.do = "Lock" -> sync[st.on].w = 0 /\ sync[st.on].r = {}
            [] st.do = "RLock" -> sync[st.on].w = 0
            [] OTHER -> TRUE

AfterLockStep(t, st) ==
    LET th == sync.th[t]
        last == th.at = Len(LockScript(th.op))
        moved == [sync EXCEPT
                     !.th[t] = IF last THEN [th EXCEPT !.op = "none", !.at = 0]
                               ELSE [th EXCEPT !.at = @ + 1]]
    IN  CASE st.do = "Lock" -> [moved EXCEPT ![st.on].w = t]
          [] st.do = "Unlock" -> [moved EXCEPT ![st.on].w = 0]
          [] st.do = "RLock" -> [moved EXCEPT ![st.on].r = @ \cup {t}]
          [] st.do = "RUnlock" -> [moved EXCEPT ![st.on].r = @ \ {t}]
          [] st.do = "close" -> [moved EXCEPT !.stop = "closed"]
          [] OTHER -> moved

\* caller t starts operation op
LockCall(t, op) ==
    /\ ~sync.dead
    /\ ~InCall(t)
    /\ sync.th[t].calls < EventsPerCaller
    /\ sync' = [sync EXCEPT !.th[t] = [op |-> op, at |-> 1, calls |-> @.calls + 1]]
    /\ UNCHANGED <<storeVars, config, requestCount, responseTimes, schedVars,
                   clock, updates, recorded, hist, lastOp, trail, lastRead, keep,
                   mutex, callers, cleaner, reader, observed, anyEvicted, snap,
                   updater, getter, rtCaller, response, server, urlVisitors, mc>>

\* caller t takes the next step of its call; after the last one it has returned
LockAdvance(t) ==
    /\ ~sync.dead
    /\ CanLockStep(t)
    /\ sync' = AfterLockStep(t, NextLockStep(t))
    /\ UNCHANGED <<storeVars, config, requestCount, responseTimes, schedVars,
                   clock, updates, recorded, hist, lastOp, trail, lastRead, keep,
                   mutex, callers, cleaner, reader, observed, anyEvicted, snap,
                   updater, getter, rtCaller, response, server, urlVisitors, mc>>

\* the cleanup goroutine, which takes neither lock: its select receives a tick
\* or the stop signal, shouldCleanup decides, performCleanup ranges over the
\* map and deletes from it
GCMove(from, to) ==
    /\ ~sync.dead
    /\ sync.gc = from
    /\ sync' = [sync EXCEPT !.gc = to]
    /\ UNCHANGED <<storeVars, config, requestCount, responseTimes, schedVars,
                   clock, updates, recorded, hist, lastOp, trail, lastRead, keep,
                   mutex, callers, cleaner, reader, observed, anyEvicted, snap,
                   updater, getter, rtCaller, response, server, urlVisitors, mc>>

GCReceive == sync.gc = "select" /\ GCMove("select", "check")

GCCheck(due) == sync.gc = "check" /\ GCMove("check", IF due THEN "range" ELSE "select")

GCRange == sync.gc = "range" /\ GCMove("range", "delete")

GCDelete == sync.gc = "delete" /\ GCMove("delete", "select")

GCStop == sync.stop = "closed" /\ GCMove("select", "done")

\* the accesses of the goroutine and of a caller that the Go runtime reports as
\* "concurrent map iteration and map write" or "concurrent map read and map
\* write"
MapConflict(t) ==
    /\ InCall(t)
    /\ \/ sync.gc = "range" /\ NextLockStep(t).do = "mapWrite"
       \/ sync.gc = "delete" /\ NextLockStep(t).do \in {"mapWrite", "mapRead"}

\* the runtime ends the process on such an access: no call in progress returns
LockFatal ==
    /\ ~sync.dead
    /\ \E t \in 1..NumCallers : MapConflict(t)
    /\ sync' = [sync EXCEPT !.dead = TRUE]
    /\ UNCHANGED <<storeVars, config, requestCount, responseTimes, schedVars,
                   clock, updates, recorded, hist, lastOp, trail, lastRead, keep,
                   mutex, callers, cleaner, reader, observed, anyEvicted, snap,
                   updater, getter, rtCaller, response, server, urlVisitors, mc>>

InitLocks == Started /\ keep = "locks"

NextLocks ==
    \/ \E t \in 1..NumCallers, op \in LockOps : LockCall(t, op)
    \/ \E t \in 1..NumCallers : LockAdvance(t)
    \/ GCReceive
    \/ \E due \in BOOLEAN : GCCheck(due)
    \/ GCRange
    \/ GCDelete
    \/ GCStop
    \/ LockFatal

\* the scheduler runs every runnable goroutine: a caller that can take its next
\* step takes it, the cleanup goroutine finishes a pass it has begun, and its
\* select, which picks at random among the ready cases, does not pass over a
\* closed stop channel for ever
SpecLocks ==
    /\ InitLocks
    /\ [][NextLocks]_vars
    /\ \A t \in 1..NumCallers : WF_vars(LockAdvance(t))
    /\ WF_vars(\E due \in BOOLEAN : GCCheck(due))
    /\ WF_vars(GCRange)
    /\ WF_vars(GCDelete)
    /\ SF_vars(GCStop)

\* ------------------------------------------------------------------------
\* The server around the store: Start, waitForShutdown and Stop
\* ------------------------------------------------------------------------
ServerGoroutines == {"main", "direct"}

ServerAlive == \A g \in ServerGoroutines : server.pc[g] # "panic"

OnlyServer ==
    UNCHANGED <<storeVars, config, requestCount, responseTimes, tickers,
                cleanupTicker, workers, clock, updates, recorded, hist, lastOp,
                trail, lastRead, keep, mutex, callers, cleaner, reader, observed,
                anyEvicted, snap, updater, getter, rtCaller, response, sync,
                urlVisitors, mc>>

\* NewServer and Start: the server is built and its main goroutine waits in
\* waitForShutdown
ServerStart(variant) ==
    /\ server.pc.main = "new"
    /\ server' = [server EXCEPT !.variant = variant, !.pc.main = "select"]
    /\ UNCHANGED cleanupStop
    /\ OnlyServer

\* SIGINT or SIGTERM arrives in sigCh
OSSignal ==
    /\ ServerAlive
    /\ server.pc.main # "new"
    /\ ~server.sig
    /\ server' = [server EXCEPT !.sig = TRUE]
    /\ UNCHANGED cleanupStop
    /\ OnlyServer

\* waitForShutdown, case <-sigCh: both variants call s.Stop()
WaitReceiveSignal ==
    /\ ServerAlive
    /\ server.pc.main = "select"
    /\ server.sig
    /\ server' = [server EXCEPT !.pc.main = "stop"]
    /\ UNCHANGED cleanupStop
    /\ OnlyServer

\* waitForShutdown, case <-s.shutdownCh: the variant with sync.Once returns,
\* the other one goes on to s.Stop()
WaitReceiveShutdown ==
    /\ ServerAlive
    /\ server.pc.main = "select"
    /\ server.shutdownCh = "closed"
    /\ server' = [server EXCEPT
                     !.pc.main = IF server.variant = "once" THEN "done" ELSE "stop"]
    /\ UNCHANGED cleanupStop
    /\ OnlyServer

\* some other goroutine calls Server.Stop()
DirectStop ==
    /\ ServerAlive
    /\ server.pc.main # "new"
    /\ server.pc.direct = "idle"
    /\ server' = [server EXCEPT !.pc.direct = "stop"]
    /\ UNCHANGED cleanupStop
    /\ OnlyServer

\* Server.Stop() is entered: s.stopOnce.Do runs the body for the first caller,
\* makes a caller that arrives while it runs wait, and skips it afterwards;
\* the variant without sync.Once starts with s.tracker.Stop()
ServerStopEnter(g) ==
    /\ ServerAlive
    /\ server.pc[g] = "stop"
    /\ IF server.variant = "once"
       THEN /\ server.stopOnce # "running"
            /\ server' = IF server.stopOnce = "fresh"
                         THEN [server EXCEPT !.stopOnce = "running",
                                             !.pc[g] = "shutdown"]
                         ELSE [server EXCEPT !.pc[g] = "done"]
       ELSE server' = [server EXCEPT !.pc[g] = "tracker"]
    /\ UNCHANGED cleanupStop
    /\ OnlyServer

\* s.tracker.Stop(), which is close(nt.cleanupStop): a closed channel makes it
\* panic
ServerStopTracker(g) ==
    /\ ServerAlive
    /\ server.pc[g] = "tracker"
    /\ cleanupStop' = "closed"
    /\ server' = [server EXCEPT
                     !.trackerStops = @ + 1,
                     !.pc[g] = IF cleanupStop = "closed" THEN "panic"
                               ELSE "shutdown"]
    /\ OnlyServer

\* s.httpServer.Shutdown(ctx): on an error the variant without sync.Once
\* returns before close(s.shutdownCh)
ServerShutdownHTTP(g, failed) ==
    /\ ServerAlive
    /\ server.pc[g] = "shutdown"
    /\ server' = [server EXCEPT
                     !.pc[g] = IF failed /\ server.variant = "latest"
                               THEN "done" ELSE "close"]
    /\ UNCHANGED cleanupStop
    /\ OnlyServer

\* close(s.shutdownCh)
ServerCloseShutdownCh(g) ==
    /\ ServerAlive
    /\ server.pc[g] = "close"
    /\ server' = [server EXCEPT
                     !.shutdownCh = "closed",
                     !.closes = @ + 1,
                     !.stopOnce = IF server.variant = "once" THEN "done" ELSE @,
                     !.pc[g] = IF server.shutdownCh = "closed" THEN "panic"
                               ELSE "done"]
    /\ UNCHANGED cleanupStop
    /\ OnlyServer

InitServer == Started /\ keep = "server"

NextServer ==
    \/ \E variant \in {"once", "latest"} : ServerStart(variant)
    \/ OSSignal
    \/ WaitReceiveSignal
    \/ WaitReceiveShutdown
    \/ DirectStop
    \/ \E g \in ServerGoroutines : ServerStopEnter(g)
    \/ \E g \in ServerGoroutines : ServerStopTracker(g)
    \/ \E g \in ServerGoroutines, failed \in BOOLEAN : ServerShutdownHTTP(g, failed)
    \/ \E g \in ServerGoroutines : ServerCloseShutdownCh(g)
    \/ \E t \in WorkerIds : TickerFire(t)
    \/ \E w \in WorkerIds, alloc \in AllocSamples : CleanupTick(w, alloc)
    \/ \E w \in WorkerIds : WorkerStop(w)
    \/ \E alloc \in AllocSamples : RecordEvent(MkEvent(V1, Page1, "", ""), alloc)

SpecServer == InitServer /\ [][NextServer]_vars

\* ------------------------------------------------------------------------
\* The MetricsCollector: concurrent RecordRequest calls, and the two buffers
\* side by side
\* ------------------------------------------------------------------------
Endpoints == {"/ingest", "/stats"}

StatusCodes == {200, 500}

OnlyCollector ==
    UNCHANGED <<storeVars, config, requestCount, responseTimes, schedVars,
                response, lastOp, hist, updates, clock, recorded, trail,
                lastRead, keep, mutex, callers, cleaner, reader, observed,
                anyEvicted, snap, updater, getter, rtCaller, sync, server,
                urlVisitors>>

Request(endpoint, responseTime, statusCode, t) ==
    [endpoint |-> endpoint, responseTime |-> responseTime,
     statusCode |-> statusCode, by |-> t]

\* goroutine t calls RecordRequest(endpoint, responseTime, statusCode)
MCCall(t, endpoint, responseTime, statusCode) ==
    /\ mc.th[t].pc = "idle"
    /\ mc.started < MaxEvents
    /\ mc' = [mc EXCEPT
                 !.started = @ + 1,
                 !.th[t] = [pc |-> "lock",
                            call |-> Request(endpoint, responseTime, statusCode, t)]]
    /\ OnlyCollector

\* a collector whose Lock does not wait
MetricsLockIgnored == TRUE

\* mc.mutex.Lock() can return
MetricsLockFree == mc.mutex = 0

\* mc.mutex.Lock()
MCLock(t) ==
    /\ mc.th[t].pc = "lock"
    /\ MetricsLockFree
    /\ mc' = [mc EXCEPT !.mutex = t,
                        !.th[t].pc = "load",
                        !.log = Append(@, mc.th[t].call)]
    /\ OnlyCollector

\* the body reads the counters, the buffer and the maps
MCLoad(t) ==
    /\ mc.th[t].pc = "load"
    /\ mc' = [mc EXCEPT !.th[t] = [pc |-> "store", call |-> @.call,
                                   local |-> mc.circular]]
    /\ OnlyCollector

\* the body writes them back and the deferred Unlock runs
MCStore(t) ==
    /\ mc.th[t].pc = "store"
    /\ LET call == mc.th[t].call
       IN  mc' = [mc EXCEPT
                     !.circular = RecordRequestCircular(mc.th[t].local, call.endpoint,
                                      call.responseTime, call.statusCode),
                     !.mutex = 0,
                     !.th[t] = [pc |-> "idle"]]
    /\ OnlyCollector

\* Reset(), from Lock to Unlock, on both collectors
MCReset ==
    /\ MetricsLockFree
    /\ mc.log # <<>>
    /\ mc' = [mc EXCEPT !.circular = EmptyCircular, !.slice = EmptySlice,
                        !.log = <<>>]
    /\ OnlyCollector

\* RecordRequest(endpoint, responseTime, statusCode) on both collectors
RecordRequestBoth(endpoint, responseTime, statusCode) ==
    /\ mc.started < responseTimesBufferSize + 2
    /\ mc' = [mc EXCEPT
                 !.started = @ + 1,
                 !.circular = RecordRequestCircular(@, endpoint, responseTime, statusCode),
                 !.slice = RecordRequestSlice(@, endpoint, responseTime, statusCode),
                 !.log = Append(@, Request(endpoint, responseTime, statusCode, 0))]
    /\ OnlyCollector

\* concurrent RecordRequest calls and Reset on the collector of metrics.go
InitMetrics == Started /\ keep = "metrics"

NextMetrics ==
    \/ \E t \in 1..NumCallers, endpoint \in Endpoints, statusCode \in StatusCodes :
          MCCall(t, endpoint, 5, statusCode)
    \/ \E t \in 1..NumCallers : MCLock(t)
    \/ \E t \in 1..NumCallers : MCLoad(t)
    \/ \E t \in 1..NumCallers : MCStore(t)
    \/ MCReset

SpecMetrics == InitMetrics /\ [][NextMetrics]_vars

\* the same calls made on the collector with the circular buffer and on the
\* one with the slice
InitBuffer == Started /\ keep = "buffer"

NextBuffer ==
    \/ \E responseTime \in {1, 2, 4}, statusCode \in StatusCodes :
          RecordRequestBoth("/ingest", responseTime, statusCode)
    \/ MCReset

SpecBuffer == InitBuffer /\ [][NextBuffer]_vars

\* one reconfiguration interleaved with GetConfiguration, RecordResponseTime,
\* RecordEvent, Stop and the cleanup goroutines
InitReconf == Started /\ keep = "reconf"

NextReconf ==
    \/ \E c \in ReconfConfigs : UpdaterLock(c)
    \/ UpdaterAssign
    \/ UpdaterStopOld
    \/ UpdaterNewTicker
    \/ UpdaterGo
    \/ GetterCall
    \/ GetterReturn
    \/ RTCall
    \/ \E duration \in {5} : RTRecord(duration)
    \/ \E alloc \in AllocSamples : LockedRecordEvent(MkEvent(V1, Page1, "", ""), alloc)
    \/ \E w \in WorkerIds : WorkerEval(w)
    \/ \E w \in WorkerIds : WorkerReceive(w)
    \/ \E w \in WorkerIds, alloc \in AllocSamples : WorkerCheck(w, alloc)
    \/ \E t \in WorkerIds : TickerFire(t)
    \/ Stop
    \/ \E w \in WorkerIds : WorkerStop(w)

SpecReconf == InitReconf /\ [][NextReconf]_vars

\* ------------------------------------------------------------------------
\* Properties
\* ------------------------------------------------------------------------
TypeOK == DOMAIN urlStats \subseteq URLKeys

\* the aggregates present, and what history says should be present
Present == DOMAIN urlStats

Folded(u) == { v \in VisitorIDs : hist[u][v] > 0 }

\* C1: between operations, every URL aggregate in the store has
\* DistinctVisitors equal to the number of entries of its Visitors map
C1_DistinctEqualsMapSize ==
    \A u \in DOMAIN urlStats :
        urlStats[u].DistinctVisitors = MapLen(urlStats[u].Visitors)

\* an aggregate with two visitors, one of them a repeat visitor, seen
\* after a cleanup pass
C1_Witness ==
    /\ lastOp.cleanup
    /\ \E u \in DOMAIN urlStats :
          /\ urlStats[u].DistinctVisitors = 2
          /\ urlStats[u].TotalPageViews = 3

\* C2: the same (visitor, URL) pair recorded N >= 1 times, with no other
\* event folded into that URL's aggregate and no eviction or Reset in
\* between, gives GetDistinctVisitors = 1 and TotalPageViews = N
C2_IdempotentRevisit ==
    \A u \in URLKeys : \A v \in VisitorIDs :
        (hist[u][v] >= 1 /\ Folded(u) = {v})
            => /\ GetDistinctVisitors(u) = 1
               /\ GetVisitorStats(u).TotalPageViews = hist[u][v]

C2_Witness ==
    \E u \in URLKeys : \E v \in VisitorIDs :
        /\ hist[u][v] = 3
        /\ Folded(u) = {v}
        /\ GetDistinctVisitors(u) = 1

\* the last two calls were successful RecordEvent calls of one visitor, not
\* seen before the first, on URL a and then on another URL b
CrossURLPair(a, b) ==
    /\ Len(trail) = 2
    /\ trail[1].op.op = "RecordEvent" /\ trail[1].op.ok
    /\ trail[2].op.op = "RecordEvent" /\ trail[2].op.ok
    /\ trail[1].op.visitor = trail[2].op.visitor
    /\ trail[1].op.visitor \notin trail[1].pre.seen
    /\ trail[1].op.url = a
    /\ trail[2].op.url = b
    /\ a # b

\* what the pair did to the counts: one more unique visitor, one more
\* distinct visitor on a and on b, every other URL as before the pair
CrossURLEffect(a, b) ==
    /\ metrics.TotalUniqueVisitors = trail[1].pre.tuv + 1
    /\ \A u \in URLKeys :
          GetDistinctVisitors(u) =
              trail[1].pre.dv[u] + (IF u \in {a, b} THEN 1 ELSE 0)

\* C3 as stated: a visitor not seen before, recorded on URL A and then on
\* URL B, raises TotalUniqueVisitors by exactly 1 and the distinct-visitor
\* counts of A and of B by exactly 1 each, and changes no other URL's count
C3_CrossURLIndependence ==
    \A a \in URLKeys, b \in URLKeys :
        CrossURLPair(a, b) => CrossURLEffect(a, b)

\* C3, amended: the same, provided neither call's cleanup pass evicts an
\* aggregate
C3_CrossURLIndependence_NoEviction ==
    \A a \in URLKeys, b \in URLKeys :
        (CrossURLPair(a, b) /\ trail[1].op.evicted = {} /\ trail[2].op.evicted = {})
            => CrossURLEffect(a, b)

\* the pair recorded on a store where URL a already had another visitor
C3_Witness ==
    \E a \in URLKeys, b \in URLKeys :
        /\ CrossURLPair(a, b)
        /\ trail[1].op.evicted = {} /\ trail[2].op.evicted = {}
        /\ trail[1].pre.dv[a] = 1
        /\ trail[1].pre.seen # {}
        /\ GetDistinctVisitors(a) = 2

\* C7: a RecordEvent call whose event fails validation (empty visitor id,
\* bad character, visitor id over 255, empty URL, URL over 2048, URL that
\* does not parse, user agent over 500, referrer over 2048) returns an
\* error, leaves the URL map with its counters, the global visitor set and
\* the system metrics as they were, and runs no cleanup pass. Stated by
\* contraposition: a step that returns success, runs a cleanup pass or
\* changes any of the three is not RecordEvent of an invalid event
C7_InvalidEventRejected ==
    [][(\/ lastOp'.ok
        \/ lastOp'.cleanup
        \/ ~UNCHANGED <<urlStats, globalVisitors, metrics>>) =>
            \A ne \in InvalidEvents, alloc \in AllocSamples :
                ~RecordEvent(ne, alloc)]_vars

\* a rejected call has returned and an aggregate a cleanup pass would have
\* evicted is still in the store
C7_Witness ==
    /\ lastOp.op = "RecordEvent"
    /\ ~lastOp.ok
    /\ \E u \in DOMAIN urlStats : evictable(urlStats[u], clock)

\* the aggregates with fewer than 2 distinct visitors whose last visit is
\* more than 24 hours before now
Stale ==
    { u \in DOMAIN urlStats :
        /\ urlStats[u].DistinctVisitors < 2
        /\ clock - urlStats[u].LastVisit > RetentionHours }

\* a pass that no other operation overlaps removes an aggregate if and only
\* if it has fewer than 2 distinct visitors and its last visit is more than
\* 24 hours before the pass, and leaves every survivor unmodified.  A pass
\* run by the cleanup goroutine leaves exactly the survivors; a pass run
\* inside RecordEvent is followed by the write to the event's own URL, which
\* is created afresh if the pass removed it
EvictionPassPolicy ==
    [][/\ \A w \in WorkerIds, alloc \in AllocSamples :
            (CleanupTick(w, alloc) /\ shouldCleanup(alloc, urlStats, config))
                => /\ DOMAIN urlStats' = DOMAIN urlStats \ Stale
                   /\ \A u \in DOMAIN urlStats' : urlStats'[u] = urlStats[u]
       /\ \A ne \in ValidEvents, alloc \in AllocSamples :
            (RecordEvent(ne, alloc) /\ shouldCleanup(alloc, urlStats, config))
                => LET url == NormalizeURL(ne.URL)
                   IN  /\ DOMAIN urlStats' = (DOMAIN urlStats \ Stale) \cup {url}
                       /\ \A u \in DOMAIN urlStats' \ {url} :
                              urlStats'[u] = urlStats[u]
                       /\ url \in Stale => urlStats'[url].TotalPageViews = 1
                       /\ url \in DOMAIN urlStats \ Stale =>
                              urlStats'[url].TotalPageViews =
                                  urlStats[url].TotalPageViews + 1]_vars

\* a pass has removed an aggregate and kept one with 2 distinct visitors
\* whose last visit is more than 24 hours old
EvictionPassPolicy_Witness ==
    /\ lastOp.cleanup
    /\ lastOp.evicted # {}
    /\ \E u \in DOMAIN urlStats :
          /\ urlStats[u].DistinctVisitors >= 2
          /\ clock - urlStats[u].LastVisit > RetentionHours

\* a URL string with no aggregate: never stored under that string, or not
\* recorded since its aggregate was evicted or cleared by Reset
Absent(url) == url \notin URLKeys \/ Folded(url) = {}

\* C8: for an absent URL GetVisitorStats returns a non-nil summary that
\* carries the queried URL with DistinctVisitors = 0 and TotalPageViews = 0,
\* GetDistinctVisitors returns 0 and GetDetailedURLStats returns nil; for a
\* present URL GetDetailedURLStats never returns nil
C8_AbsenceSemantics ==
    /\ (lastRead.op = "GetVisitorStats" /\ Absent(lastRead.url))
            => /\ lastRead.ret # Nil
               /\ lastRead.ret.URL = lastRead.url
               /\ lastRead.ret.DistinctVisitors = 0
               /\ lastRead.ret.TotalPageViews = 0
    /\ (lastRead.op = "GetDistinctVisitors" /\ Absent(lastRead.url))
            => lastRead.ret = 0
    /\ (lastRead.op = "GetDetailedURLStats" /\ Absent(lastRead.url))
            => lastRead.ret = Nil
    /\ (lastRead.op = "GetDetailedURLStats" /\ ~Absent(lastRead.url))
            => lastRead.ret # Nil

\* GetVisitorStats has answered for a URL that was recorded and then evicted
C8_Witness ==
    /\ lastRead.op = "GetVisitorStats"
    /\ lastRead.url \in URLKeys
    /\ Absent(lastRead.url)
    /\ metrics.TotalEvents >= 1
    /\ urlStats = <<>>
    /\ lastRead.ret.DistinctVisitors = 0

\* C9: after Reset returns the store has no aggregates, an empty global
\* visitor set, TotalEvents = TotalUniqueVisitors = TotalUniqueURLs = 0 and
\* every URL reports 0 distinct visitors; a visitor seen before the Reset
\* and recorded right after it is counted as a new unique visitor
C9_ResetCompleteness ==
    /\ lastOp.op = "Reset"
            => /\ urlStats = <<>>
               /\ globalVisitors = {}
               /\ metrics.TotalEvents = 0
               /\ metrics.TotalUniqueVisitors = 0
               /\ metrics.TotalUniqueURLs = 0
               /\ \A u \in QueryURLs \cup URLKeys : GetDistinctVisitors(u) = 0
    /\ (/\ Len(trail) = 2
        /\ trail[1].op.op = "Reset"
        /\ trail[2].op.op = "RecordEvent" /\ trail[2].op.ok
        /\ trail[2].op.visitor \in trail[1].pre.seen)
            => /\ trail[2].pre.tuv = 0
               /\ metrics.TotalUniqueVisitors = 1
               /\ trail[2].op.visitor \in globalVisitors

\* a visitor seen before a Reset has been recorded again right after it
C9_Witness ==
    /\ Len(trail) = 2
    /\ trail[1].op.op = "Reset"
    /\ trail[1].pre.tuv = 2
    /\ trail[2].op.op = "RecordEvent" /\ trail[2].op.ok
    /\ trail[2].op.visitor \in trail[1].pre.seen
    /\ metrics.TotalUniqueVisitors = 1

\* ------------------------------------------------------------------------
\* Properties of the concurrent callers
\* ------------------------------------------------------------------------
AllReturned ==
    \A c \in Callers :
        callers[c].pc = "idle" /\ callers[c].done = EventsPerCaller

RECURSIVE SumDistinctVisitors(_)
SumDistinctVisitors(S) ==
    IF S = {} THEN 0
    ELSE LET u == CHOOSE x \in S : TRUE
         IN  urlStats[u].DistinctVisitors + SumDistinctVisitors(S \ {u})

RECURSIVE SumPageViews(_)
SumPageViews(S) ==
    IF S = {} THEN 0
    ELSE LET u == CHOOSE x \in S : TRUE
         IN  urlStats[u].TotalPageViews + SumPageViews(S \ {u})

\* every one of the NumCallers * EventsPerCaller events is counted
NothingLost ==
    /\ metrics.TotalEvents = NumCallers * EventsPerCaller
    /\ metrics.TotalUniqueVisitors = NumCallers * EventsPerCaller
    /\ SumDistinctVisitors(DOMAIN urlStats) = NumCallers * EventsPerCaller
    /\ SumPageViews(DOMAIN urlStats) = NumCallers * EventsPerCaller

\* C4, for runs in which no more than 24 hours pass (no aggregate of the
\* run is then old enough for the eviction policy): G concurrent callers
\* each issue E RecordEvent calls with pairwise distinct visitor
\* identifiers; in every interleaving, once all calls have returned,
\* TotalEvents = TotalUniqueVisitors = G*E and the per-URL distinct-visitor
\* counts and page-view counts each sum to G*E
C4_NoLostUpdate ==
    (AllReturned /\ clock - Epoch <= RetentionHours) => NothingLost

\* the write lock by itself loses nothing: the counts are complete at the
\* end of every run in which no cleanup pass removed an aggregate
NoLostUpdateWithoutEviction == (AllReturned /\ ~anyEvicted) => NothingLost

\* C5: no reader ever observes an aggregate whose DistinctVisitors differs
\* from the size of its Visitors map, whether it reads a copy made under
\* the read lock or an aggregate handed back by GetTopURLs and read after
\* the call returned
C5_ReadersSeeConsistentAggregates == observed.dv = observed.n

\* C6: an eviction pass never overlaps a RecordEvent call.  (A pass run
\* inside RecordEvent is part of the step that takes the write lock; the
\* passes that span states are those of the cleanup goroutine.)
C6_EvictionNeverOverlapsRecordEvent ==
    cleaner.pc \in {"range", "delete"}
        => \A c \in Callers : callers[c].pc \in {"idle", "panicked"}

\* C10: every aggregate removed from the map by a cleanup pass has, when
\* it is removed, fewer than 2 distinct visitors and a last visit more than
\* 24 hours old (only cleanup passes remove aggregates here)
C10_RemovedOnlyIfStaleSingleVisitor ==
    [][\A u \in DOMAIN urlStats \ DOMAIN urlStats' :
          /\ urlStats[u].DistinctVisitors < 2
          /\ clock - urlStats[u].LastVisit > RetentionHours]_vars

\* ------------------------------------------------------------------------
\* Properties of the life cycle
\* ------------------------------------------------------------------------
\* the step is a RecordEvent that returns nil and stores its event under u
RecordsOn(u) ==
    \E ne \in LifeEvents, alloc \in AllocSamples :
        /\ Validate(ne)
        /\ NormalizeURL(ne.URL) = u
        /\ RecordEvent(ne, alloc)

\* the step runs a cleanup pass (on a tick or inside RecordEvent)
RunsCleanupPass ==
    \E alloc \in AllocSamples :
        /\ shouldCleanup(alloc, urlStats, config)
        /\ \/ \E w \in WorkerIds : CleanupTick(w, alloc)
           \/ \E ne \in LifeEvents : Validate(ne) /\ RecordEvent(ne, alloc)

\* the step is one of the operations that are not to touch the URL map
LeavesAggregatesAlone ==
    \/ \E name \in {"GetDistinctVisitors", "GetVisitorStats", "GetDetailedURLStats"},
          url \in QueryURLs : ReadURL(name, url)
    \/ \E ne \in LifeEvents, alloc \in AllocSamples :
          ~Validate(ne) /\ RecordEvent(ne, alloc)
    \/ \E c \in LifeConfigs : UpdateConfiguration(c)
    \/ Stop

\* C11: a URL aggregate becomes present only through a RecordEvent for its
\* normalized URL that returns nil, and becomes absent only through a cleanup
\* pass that finds it evictable or through Reset; a read, a rejected
\* RecordEvent, UpdateConfiguration and Stop leave the set of aggregates as
\* it was
C11_AggregateLifeCycle ==
    [][/\ \A u \in DOMAIN urlStats' \ DOMAIN urlStats : RecordsOn(u)
       /\ \A u \in DOMAIN urlStats \ DOMAIN urlStats' :
             \/ Reset
             \/ evictable(urlStats[u], clock) /\ RunsCleanupPass
       /\ DOMAIN urlStats' # DOMAIN urlStats => ~LeavesAggregatesAlone]_vars

\* Stop has returned after a reconfiguration, with one aggregate left of the
\* two that were recorded
C11_Witness ==
    /\ lastOp.op = "Stop"
    /\ updates >= 1
    /\ metrics.TotalEvents = 2
    /\ MapLen(urlStats) = 1

\* ------------------------------------------------------------------------
\* Properties of the ranking reads
\* ------------------------------------------------------------------------
\* seq is in non-increasing order of Key
NonIncreasing(keys) ==
    \A i \in 1..(Len(keys) - 1) : keys[i] >= keys[i + 1]

\* C12: what GetTopURLs(limit) returned is in non-increasing order of
\* DistinctVisitors and made of stored aggregates; with 0 < limit < number
\* of URLs it has exactly limit entries and no omitted URL has more distinct
\* visitors than a returned one; with limit <= 0 or limit >= number of URLs
\* it has every URL exactly once
C12_TopURLsOrderedAndTruncated ==
    lastRead.op = "GetTopURLs" =>
        LET items == lastRead.ret.items
            limit == lastRead.limit
            n     == MapLen(urlStats)
            dv    == [i \in DOMAIN items |-> items[i].DistinctVisitors]
            returned == { items[i].URL : i \in DOMAIN items }
        IN  /\ NonIncreasing(dv)
            /\ \A i \in DOMAIN items :
                  /\ items[i].URL \in DOMAIN urlStats
                  /\ items[i] = urlStats[items[i].URL]
            /\ Cardinality(returned) = Len(items)
            /\ (limit > 0 /\ limit < n) =>
                  /\ Len(items) = limit
                  /\ \A u \in DOMAIN urlStats \ returned : \A i \in DOMAIN items :
                        urlStats[u].DistinctVisitors <= items[i].DistinctVisitors
            /\ (limit <= 0 \/ limit >= n) => returned = DOMAIN urlStats

\* GetTopURLs(1) has returned the URL with 2 distinct visitors and left out
\* the one with 1
C12_Witness ==
    /\ lastRead.op = "GetTopURLs"
    /\ lastRead.limit = 1
    /\ MapLen(urlStats) = 2
    /\ Len(lastRead.ret.items) = 1
    /\ lastRead.ret.items[1].DistinctVisitors = 2
    /\ \E u \in DOMAIN urlStats : urlStats[u].DistinctVisitors = 1

\* C13: GetTopVisitors(url, limit) returned nil for a URL not in the store;
\* for a stored URL it returned visitor records of that URL in
\* non-increasing order of VisitCount, never an empty result, exactly limit
\* of them and the highest when 0 < limit < number of visitors, and all of
\* them otherwise
C13_TopVisitorsOrderedAndTruncated ==
    lastRead.op = "GetTopVisitors" =>
        LET items == lastRead.ret.items
            limit == lastRead.limit
            url   == lastRead.url
            vc    == [i \in DOMAIN items |-> items[i].VisitCount]
            returned == { items[i].VisitorID : i \in DOMAIN items }
        IN  IF url \notin DOMAIN urlStats
            THEN lastRead.ret = NilSlice
            ELSE LET visitors == urlStats[url].Visitors
                     n == MapLen(visitors)
                 IN  /\ ~lastRead.ret.isNil
                     /\ Len(items) >= 1
                     /\ NonIncreasing(vc)
                     /\ \A i \in DOMAIN items :
                           /\ items[i].VisitorID \in DOMAIN visitors
                           /\ items[i] = visitors[items[i].VisitorID]
                     /\ Cardinality(returned) = Len(items)
                     /\ (limit > 0 /\ limit < n) =>
                           /\ Len(items) = limit
                           /\ \A v \in DOMAIN visitors \ returned :
                                 \A i \in DOMAIN items :
                                    visitors[v].VisitCount <= items[i].VisitCount
                     /\ (limit <= 0 \/ limit >= n) => returned = DOMAIN visitors

\* GetTopVisitors(url, 1) has returned the visitor with 2 visits and left
\* out the one with 1
C13_Witness ==
    /\ lastRead.op = "GetTopVisitors"
    /\ lastRead.limit = 1
    /\ lastRead.url \in DOMAIN urlStats
    /\ MapLen(urlStats[lastRead.url].Visitors) = 2
    /\ Len(lastRead.ret.items) = 1
    /\ lastRead.ret.items[1].VisitCount = 2

\* GetTopVisitors has returned nil for a URL that is not stored while
\* another URL is
C13_WitnessAbsent ==
    /\ lastRead.op = "GetTopVisitors"
    /\ lastRead.url \notin DOMAIN urlStats
    /\ urlStats # <<>>

VisitorsOn(u) ==
    IF u \in DOMAIN urlStats THEN DOMAIN urlStats[u].Visitors ELSE {}

\* C15: an event on any spelling of https://example.com/path that differs
\* in the case of scheme and host, in one trailing slash or in the fragment
\* is folded into the aggregate stored under https://example.com/path: no
\* aggregate is stored under another spelling, the visitor is in that
\* aggregate, and GetDistinctVisitors of it rises by one exactly when the
\* visitor is new there, so it equals the number of visitors recorded
C15_SpellingsFoldIntoOneAggregate ==
    [][\A ne \in URLEvents :
          (/\ ne.URL \in PathSpellings
           /\ lastOp'.visitor = ne.VisitorID
           /\ \E alloc \in AllocSamples : RecordEvent(ne, alloc)) =>
              /\ DOMAIN urlStats' \cap PathSpellings = {PathPlain}
              /\ VisitorsOn(PathPlain)' = VisitorsOn(PathPlain) \cup {ne.VisitorID}
              /\ GetDistinctVisitors(PathPlain)' = Cardinality(VisitorsOn(PathPlain)')]_vars

\* three visitors recorded with three spellings are counted as 3 on
\* https://example.com/path
C15_Witness ==
    /\ lastRead.op = "GetDistinctVisitors"
    /\ lastRead.url = PathPlain
    /\ lastRead.ret = 3
    /\ { urlStats[PathPlain].Visitors[v].UserAgent : v \in VisitorsOn(PathPlain) }
          = {"upper", "plain", "slash"}

\* C16: every URL stored by RecordEvent satisfies IsValidURL: it has a
\* non-empty scheme and a non-empty host
C16_StoredURLsAreValid ==
    \A u \in DOMAIN urlStats : IsValidURL(u)

\* C17: NormalizeURL leaves the path of https://example.com/Path as it is,
\* and an event on it is stored under its own aggregate: it joins the
\* visitors of https://example.com/Path and leaves the aggregate of
\* https://example.com/path as it was, and the other way round
C17_PathCasePreserved ==
    [][\A ne \in URLEvents :
          /\ (/\ ne.URL = PathCase
              /\ lastOp'.visitor = ne.VisitorID
              /\ \E alloc \in AllocSamples : RecordEvent(ne, alloc)) =>
                /\ NormalizeURL(PathCase).path = <<"Path">>
                /\ ne.VisitorID \in VisitorsOn(PathCase)'
                /\ VisitorsOn(PathPlain)' = VisitorsOn(PathPlain)
                /\ GetDistinctVisitors(PathPlain)' = GetDistinctVisitors(PathPlain)
          /\ (/\ ne.URL \in PathSpellings
              /\ lastOp'.visitor = ne.VisitorID
              /\ \E alloc \in AllocSamples : RecordEvent(ne, alloc)) =>
                /\ VisitorsOn(PathCase)' = VisitorsOn(PathCase)
                /\ GetDistinctVisitors(PathCase)' = GetDistinctVisitors(PathCase)]_vars

\* https://example.com/Path holds one visitor and https://example.com/path
\* two
C17_Witness ==
    /\ lastRead.op = "GetDistinctVisitors"
    /\ lastRead.url = PathCase
    /\ lastRead.ret = 1
    /\ GetDistinctVisitors(PathPlain) = 2

\* ------------------------------------------------------------------------
\* Properties of reconfiguration
\* ------------------------------------------------------------------------
\* the cleanup goroutines that have not returned
LiveWorkers == { w \in DOMAIN workers : workers[w].pc = "select" }

\* the tickers that have not been stopped
ActiveTickers == { t \in DOMAIN tickers : ~tickers[t].stopped }

\* C18: when UpdateConfiguration(c) ends, by returning or by panicking,
\* either GetConfiguration returns c and a goroutine waits on a running
\* ticker of c's interval, or the configuration, the tickers and the
\* goroutines are as they were before the call
C18_UpdateConfigurationAtomic ==
    [][\A c \in LifeConfigs :
          UpdateConfiguration(c) =>
              \/ /\ GetConfiguration' = c
                 /\ ~tickers'[cleanupTicker'].stopped
                 /\ tickers'[cleanupTicker'].interval = c.CleanupInterval
                 /\ \E w \in LiveWorkers' : workers'[w].ticker = cleanupTicker'
              \/ /\ GetConfiguration' = GetConfiguration
                 /\ UNCHANGED <<tickers, cleanupTicker, workers>>]_vars

\* C19: once an UpdateConfiguration call has returned (and Stop was not
\* called), exactly one cleanup goroutine is alive, it waits on the one
\* ticker that is running, which is nt.cleanupTicker, and every goroutine
\* started earlier has returned
C19_OneWorkerOneTrigger ==
    (lastOp.op = "UpdateConfiguration" /\ lastOp.ok /\ cleanupStop = "open") =>
        /\ Cardinality(LiveWorkers) = 1
        /\ ActiveTickers = {cleanupTicker}
        /\ \A w \in LiveWorkers : workers[w].ticker = cleanupTicker

\* never two live goroutines waiting on one ticker
AtMostOneWorkerPerTicker ==
    \A w1, w2 \in LiveWorkers :
        workers[w1].ticker = workers[w2].ticker => w1 = w2

\* every pending access of nt.config and of nt.cleanupTicker is made by a
\* thread that holds nt.mutex
AccessesUnderLock == \A a \in PendingAccesses : a.lock

\* no two threads are about to access one location, one of them writing,
\* unless both accesses are made under nt.mutex
NoUnorderedConflict ==
    \A a, b \in PendingAccesses : Conflict(a, b) => (a.lock /\ b.lock)

\* C20: while UpdateConfiguration runs beside GetConfiguration,
\* RecordResponseTime, RecordEvent and the cleanup goroutine, every access
\* of nt.config and nt.cleanupTicker holds nt.mutex, so no read or write of
\* them is unordered with a write
C20_ReconfigurationRaceFree == AccessesUnderLock /\ NoUnorderedConflict

\* ------------------------------------------------------------------------
\* Properties of shutdown
\* ------------------------------------------------------------------------
\* C21: once Stop() has returned no cleanup goroutine is running, or starts
\* to run, the check and the eviction pass that follow a tick
C21_NoTickPassAfterStop ==
    cleanupStop = "closed" =>
        \A w \in DOMAIN workers : workers[w].pc # "check"

\* after Stop() has returned no tick is served by a cleanup goroutine
NoTickServedAfterStop ==
    [][cleanupStop = "closed" =>
          ~\E w \in WorkerIds, alloc \in AllocSamples : CleanupTick(w, alloc)]_vars

\* what RecordEvent and the reads do in a step taken after Stop() returned:
\* what they do before it, the cleanup check of RecordEvent included
WorksAfterStop ==
    /\ \A ne \in StopEvents :
          (lastOp'.visitor = ne.VisitorID /\
           \E alloc \in AllocSamples : RecordEvent(ne, alloc)) =>
              \E alloc \in AllocSamples :
                 /\ RecordEvent(ne, alloc)
                 /\ lastOp'.ok
                 /\ lastOp'.cleanup = (\/ alloc > config.MaxMemoryUsage
                                       \/ MapLen(urlStats) > config.MaxURLs)
                 /\ urlStats' =
                       recordInto(IF lastOp'.cleanup
                                  THEN performCleanup(urlStats, clock)
                                  ELSE urlStats,
                                  ne, NormalizeURL(ne.URL), clock)
                 /\ metrics'.TotalEvents = metrics.TotalEvents + 1
    /\ (lastRead' # lastRead /\ lastRead'.op = "GetDistinctVisitors") =>
          lastRead'.ret = GetDistinctVisitors(lastRead'.url)
    /\ (lastRead' # lastRead /\ lastRead'.op = "GetDetailedURLStats") =>
          lastRead'.ret = GetDetailedURLStats(lastRead'.url)

C23_StopIsIdempotent ==
    lastOp.op = "Stop" => lastOp.ok

\* ------------------------------------------------------------------------
\* Properties of the counters
\* ------------------------------------------------------------------------
\* C24: when RecordEvent or a cleanup pass of the timer has returned, the
\* store holds at most MaxURLs aggregates plus the one just written
C24_URLCountBounded ==
    (lastOp.op \in {"RecordEvent", "CleanupTick"} /\ lastOp.ok) =>
        MapLen(urlStats) <= config.MaxURLs + 1

\* ------------------------------------------------------------------------
\* Properties of the HTTP handlers
\* ------------------------------------------------------------------------
\* the request reaches validation and its event, as decoded or after the
\* headers are copied in, fails it
FailsValidation(req) ==
    /\ req.Method = "POST"
    /\ req.ContentLength <= 10 * 1024
    /\ req.Decodes
    /\ ~Validate(req.Body) \/ ~Validate(IngestEvent(req))

\* C25: a request whose event fails validation, the User-Agent or Referer
\* header copied into the event included, is answered with a 4xx status and
\* leaves the store as it was
C25_ValidationFailureIsClientError ==
    [][\A req \in Requests :
          (/\ FailsValidation(req)
           /\ \E alloc \in AllocSamples : IngestHandler(req, alloc)) =>
              /\ response'.status \in 400..499
              /\ UNCHANGED <<urlStats, globalVisitors, metrics>>]_vars

\* a request whose decoded body fails validation is answered with 400 and
\* leaves the store as it was
BodyValidationFailureIsClientError ==
    [][\A req \in Requests :
          (/\ FailsValidation(req)
           /\ ~Validate(req.Body)
           /\ \E alloc \in AllocSamples : IngestHandler(req, alloc)) =>
              /\ response'.status = 400
              /\ UNCHANGED <<urlStats, globalVisitors, metrics>>]_vars

\* C26: between operations the TotalUniqueURLs of GetSystemMetrics is the
\* number of aggregates in the store, also after a pass of the timer that
\* evicted
C26_UniqueURLsMatchesStore ==
    GetSystemMetrics.TotalUniqueURLs = MapLen(urlStats)

RECURSIVE SumVisitCount(_, _)
\* the sum of VisitCount over the visitors S of the visitor map
SumVisitCount(visitors, S) ==
    IF S = {} THEN 0
    ELSE LET v == CHOOSE x \in S : TRUE
         IN  visitors[v].VisitCount + SumVisitCount(visitors, S \ {v})

\* the counters of one aggregate agree with its visitor records
AggregateConsistent(st) ==
    /\ st.TotalPageViews >= st.DistinctVisitors
    /\ st.DistinctVisitors >= 1
    /\ \A v \in DOMAIN st.Visitors : st.Visitors[v].VisitCount >= 1
    /\ st.TotalPageViews = SumVisitCount(st.Visitors, DOMAIN st.Visitors)

\* C27: every aggregate in the store has TotalPageViews >= DistinctVisitors
\* >= 1, every visitor record has VisitCount >= 1, and TotalPageViews is the
\* sum of VisitCount over the aggregate's visitors
C27_AggregateCountersConsistent ==
    \A u \in DOMAIN urlStats : AggregateConsistent(urlStats[u])

\* an aggregate with two visitors, one of them seen twice
C27_Witness ==
    \E u \in DOMAIN urlStats :
        /\ urlStats[u].DistinctVisitors = 2
        /\ urlStats[u].TotalPageViews = 3
        /\ \E v \in DOMAIN urlStats[u].Visitors :
              urlStats[u].Visitors[v].VisitCount = 2

\* the same between the calls of concurrent callers
AggregateCountersConsistentWhenUnlocked ==
    mutex = Free => C27_AggregateCountersConsistent

\* C28: without a Reset, the TotalPageViews GetVisitorStats reports for a
\* URL never gets smaller
C28_PageViewsNonDecreasing ==
    [][lastOp'.op # "Reset" =>
          \A u \in URLKeys :
              GetVisitorStats(u).TotalPageViews' >= GetVisitorStats(u).TotalPageViews]_vars

\* the same for an aggregate that the step does not evict
PageViewsNonDecreasingWhilePresent ==
    [][(lastOp'.op # "Reset" /\ ~UNCHANGED urlStats) =>
          \A u \in (DOMAIN urlStats \cap DOMAIN urlStats') \ lastOp'.evicted :
              urlStats'[u].TotalPageViews >= urlStats[u].TotalPageViews]_vars

\* ------------------------------------------------------------------------
\* Properties of the reads
\* ------------------------------------------------------------------------
\* C29: for every URL, GetDistinctVisitors and GetVisitorStats report the
\* same DistinctVisitors; for a URL in the store GetDetailedURLStats reports
\* it too, its visitor map has that many entries, and GetVisitorStats and
\* GetDetailedURLStats report the same TotalPageViews
C29_ReadsAgree ==
    \A url \in QueryURLs :
        /\ GetDistinctVisitors(url) = GetVisitorStats(url).DistinctVisitors
        /\ url \in DOMAIN urlStats =>
              /\ GetDetailedURLStats(url) # Nil
              /\ GetDetailedURLStats(url).DistinctVisitors = GetDistinctVisitors(url)
              /\ MapLen(GetDetailedURLStats(url).Visitors) = GetDistinctVisitors(url)
              /\ GetVisitorStats(url).TotalPageViews =
                    GetDetailedURLStats(url).TotalPageViews

\* page1 holds two visitors and three page views and was just read
C29_Witness ==
    /\ Page1 \in DOMAIN urlStats
    /\ GetDistinctVisitors(Page1) = 2
    /\ GetVisitorStats(Page1).TotalPageViews = 3
    /\ lastRead.op = "GetDetailedURLStats"
    /\ lastRead.url = Page1
    /\ lastRead.ret = GetDetailedURLStats(Page1)

\* ------------------------------------------------------------------------
\* Properties of the visitor records
\* ------------------------------------------------------------------------
\* C30: when RecordEvent records a visit of a visitor already present on
\* the URL, the stored user agent is the event's if that is non-empty and
\* the stored one otherwise, the same for the referrer, and the visitor's
\* first-visit time is unchanged
C30_StickyVisitorFields ==
    [][\A ne \in StickyEvents :
          LET url == NormalizeURL(ne.URL)
              v   == ne.VisitorID
          IN  (/\ url \in DOMAIN urlStats
               /\ v \in DOMAIN urlStats[url].Visitors
               /\ lastOp'.ok
               /\ url \notin lastOp'.evicted
               /\ \E alloc \in AllocSamples : RecordEvent(ne, alloc)) =>
                  /\ urlStats'[url].Visitors[v].UserAgent =
                        (IF ne.UserAgent # "" THEN ne.UserAgent
                         ELSE urlStats[url].Visitors[v].UserAgent)
                  /\ urlStats'[url].Visitors[v].Referrer =
                        (IF ne.Referrer # "" THEN ne.Referrer
                         ELSE urlStats[url].Visitors[v].Referrer)
                  /\ urlStats'[url].Visitors[v].FirstVisit =
                        urlStats[url].Visitors[v].FirstVisit]_vars

\* a third visit with a blank user agent and a blank referrer, at a later
\* hour, has left the values stored before in place
C30_Witness ==
    /\ Page1 \in DOMAIN urlStats
    /\ V1 \in DOMAIN urlStats[Page1].Visitors
    /\ urlStats[Page1].Visitors[V1].VisitCount = 3
    /\ urlStats[Page1].Visitors[V1].UserAgent = "curl"
    /\ urlStats[Page1].Visitors[V1].Referrer = "https://ref.example"
    /\ urlStats[Page1].Visitors[V1].FirstVisit < urlStats[Page1].Visitors[V1].LastVisit

\* ------------------------------------------------------------------------
\* Properties of the eviction trigger
\* ------------------------------------------------------------------------
\* C31: a RecordEvent or a tick that runs while the store holds at most
\* MaxURLs aggregates and the measured allocation is at most MaxMemoryUsage
\* removes no aggregate, stale single-visitor ones included
C31_EvictionOnlyWhenTriggered ==
    [][(/\ DOMAIN urlStats \ DOMAIN urlStats' # {}
        /\ MapLen(urlStats) <= config.MaxURLs) =>
           \A alloc \in AllocSamples :
              alloc <= config.MaxMemoryUsage =>
                 /\ ~\E ne \in Events : RecordEvent(ne, alloc)
                 /\ ~\E w \in WorkerIds : CleanupTick(w, alloc)]_vars

\* a tick ran its check with no trigger condition and left a stale
\* single-visitor aggregate in the store
C31_Witness ==
    /\ lastOp.op = "CleanupTick"
    /\ ~lastOp.cleanup
    /\ \E u \in DOMAIN urlStats : evictable(urlStats[u], clock)

\* the locks caller t holds
HeldBy(t) ==
    {m \in {"mutex", "responseTimeMutex"} : sync[m].w = t \/ t \in sync[m].r}

\* the main lock is never requested by a caller that holds the response-time
\* lock: the two are only ever taken main first
LockOrderRespected ==
    \A t \in 1..NumCallers :
       (InCall(t) /\ "responseTimeMutex" \in HeldBy(t)) =>
          ~(NextLockStep(t).do \in {"Lock", "RLock"} /\ NextLockStep(t).on = "mutex")

\* while the process lives, some caller inside a call can take its next step
NoDeadlockWhileAlive ==
    (~sync.dead /\ \E t \in 1..NumCallers : InCall(t)) =>
       \E t \in 1..NumCallers : CanLockStep(t)

\* while the process lives every started call returns
ReturnsUnlessProcessDies ==
    \A t \in 1..NumCallers : InCall(t) ~> (~InCall(t) \/ sync.dead)

\* after Stop the cleanup goroutine returns, unless the process dies
GoroutineReturnsAfterStop ==
    (sync.stop = "closed") ~> (sync.gc = "done" \/ sync.dead)

\* C32: under fair scheduling every started call of RecordEvent, of a read, of
\* Reset, UpdateConfiguration, RecordResponseTime or Stop eventually returns
C32_EveryCallReturns ==
    \A t \in 1..NumCallers : InCall(t) ~> ~InCall(t)

\* a caller inside RecordEvent when the runtime ends the process
C32_CallLostToFatalError ==
    /\ sync.dead
    /\ \E t \in 1..NumCallers : InCall(t) /\ sync.th[t].op = "RecordEvent"

\* C33: TotalUniqueVisitors is the size of the global visitor set, every
\* visitor id in an aggregate's visitor map is in that set, and no operation
\* other than Reset lowers TotalUniqueVisitors: a visitor whose only aggregate
\* was evicted stays counted and is not counted again on return
C33_GlobalVisitorSet ==
    /\ [](/\ metrics.TotalUniqueVisitors = Cardinality(globalVisitors)
          /\ \A u \in DOMAIN urlStats :
                DOMAIN urlStats[u].Visitors \subseteq globalVisitors)
    /\ [][~Reset =>
            /\ metrics'.TotalUniqueVisitors >= metrics.TotalUniqueVisitors
            /\ globalVisitors \subseteq globalVisitors']_vars

\* a visitor whose only aggregate was evicted has just returned
C33_Witness ==
    /\ Len(trail) = 2
    /\ trail[1].op.evicted # {}
    /\ trail[2].op.op = "RecordEvent" /\ trail[2].op.ok
    /\ \A u \in URLKeys : trail[2].pre.dv[u] = 0
    /\ trail[2].op.visitor \in trail[2].pre.seen
    /\ metrics.TotalUniqueVisitors = trail[2].pre.tuv
    /\ trail[2].pre.tuv >= 1

\* C34: TotalEvents starts at 0, goes up by one with every RecordEvent call
\* that succeeds, goes back to 0 on Reset and is changed by nothing else; it is
\* never below the sum of TotalPageViews over the aggregates present, and it
\* equals that sum as long as no aggregate has been evicted since creation or
\* the last Reset
C34_TotalEventsCountsSuccesses ==
    /\ metrics.TotalEvents = 0
    /\ [](metrics.TotalEvents >= SumPageViews(DOMAIN urlStats))
    /\ [][/\ metrics'.TotalEvents =
                IF Reset THEN 0
                ELSE IF recorded' = recorded + 1 THEN metrics.TotalEvents + 1
                ELSE metrics.TotalEvents
          /\ (/\ metrics.TotalEvents = SumPageViews(DOMAIN urlStats)
              /\ lastOp'.evicted = {})
                => metrics'.TotalEvents = SumPageViews(DOMAIN urlStats)']_vars

\* a successful RecordEvent on a store that has lost an aggregate to eviction
C34_Witness ==
    /\ lastOp.op = "RecordEvent" /\ lastOp.ok
    /\ urlStats # <<>>
    /\ metrics.TotalEvents > SumPageViews(DOMAIN urlStats)

\* a failed RecordEvent on a store whose counters agree
C34_WitnessFailedCall ==
    /\ lastOp.op = "RecordEvent" /\ ~lastOp.ok
    /\ metrics.TotalEvents = 2
    /\ metrics.TotalEvents = SumPageViews(DOMAIN urlStats)

\* C35: GetDistinctVisitors called with the URL string of the event that
\* RecordEvent has just accepted returns at least 1, whatever the spelling of
\* that string (upper-case host, trailing slash, fragment)
C35_ReadFindsWrittenAggregate ==
    (/\ lastRead.op = "GetDistinctVisitors"
     /\ lastOp.op = "RecordEvent" /\ lastOp.ok
     /\ lastOp.url \in DOMAIN urlStats
     /\ urlStats[lastOp.url].Visitors[lastOp.visitor].UserAgent
           = SpellingTag(lastRead.url))
        => lastRead.ret >= 1

\* the same for a string that NormalizeURL leaves as it is
ReadFindsNormalizedURL ==
    (/\ lastRead.op = "GetDistinctVisitors"
     /\ lastOp.op = "RecordEvent" /\ lastOp.ok
     /\ lastOp.url = lastRead.url)
        => lastRead.ret >= 1

\* an event submitted with the upper-case host, then queried with that string
C35_UpperHostNotFound ==
    /\ lastRead.op = "GetDistinctVisitors"
    /\ lastRead.url = PathUpperHost
    /\ lastOp.op = "RecordEvent" /\ lastOp.ok
    /\ urlStats[lastOp.url].Visitors[lastOp.visitor].UserAgent = "upper"
    /\ lastRead.ret = 0

\* C36: NormalizeURL applied to a URL it has produced gives that URL again:
\* every key RecordEvent has stored an aggregate under is left as it is by
\* NormalizeURL, also when the submitted path ended in more than one slash
C36_NormalizeURLIdempotent ==
    \A u \in DOMAIN urlStats : NormalizeURL(u) = u

\* the same without the keys that come from a path ending in two slashes
NormalizeURLIdempotentOnOneSlash ==
    \A u \in DOMAIN urlStats :
       u # NormalizeURL(PathTwoSlashes) => NormalizeURL(u) = u

\* https://example.com/path// is accepted and stored under
\* https://example.com/path/, which NormalizeURL turns into
\* https://example.com/path
C36_TwoSlashesStored ==
    /\ Validate(MkEvent(V1, PathTwoSlashes, "other", ""))
    /\ NormalizeURL(PathTwoSlashes) = PathSlash
    /\ PathSlash \in DOMAIN urlStats
    /\ NormalizeURL(PathSlash) = PathPlain

\* C37: however shutdown starts, the tracker's Stop is invoked at most once,
\* the server's shutdown channel is closed at most once, and no goroutine
\* panics on a close of a closed channel
C37_StopChannelsSignalledOnce ==
    /\ server.trackerStops <= 1
    /\ server.closes <= 1
    /\ ServerAlive

\* the same for the Server.Stop that is wrapped in sync.Once
ShutdownWithOnceIsClean ==
    server.variant = "once" =>
        /\ server.trackerStops = 0
        /\ server.closes <= 1
        /\ ServerAlive

\* the same for a shutdown in which nobody calls Server.Stop() directly
ShutdownBySignalIsClean ==
    server.pc.direct = "idle" =>
        /\ server.trackerStops <= 1
        /\ server.closes <= 1
        /\ ServerAlive

\* a direct Server.Stop() has returned and waitForShutdown, woken by the closed
\* shutdown channel, has panicked in the tracker's Stop
C37_SecondTrackerStopPanics ==
    /\ server.variant = "latest"
    /\ server.pc.direct = "done"
    /\ ~server.sig
    /\ server.pc.main = "panic"
    /\ server.trackerStops = 2

\* the URLs either tracker holds or a caller may ask for
RefineURLs ==
    DOMAIN urlStats \cup DOMAIN urlVisitors
        \cup {PathPlain, PathUpperHost, PathCase, PathQuery}

\* C38: after any sequence of valid events applied to both trackers, with no
\* eviction and no Reset, GetDistinctVisitors of the store equals
\* GetDistinctVisitors of the set-based tracker for every URL
C38_CounterRefinesSet ==
    \A u \in RefineURLs :
       GetDistinctVisitors(u) = SimpleGetDistinctVisitors(urlVisitors, u)

\* the same as long as the two NormalizeURL have agreed on every event, which
\* shows in the two maps having the same keys
CounterRefinesSetOnAgreedKeys ==
    DOMAIN urlStats = DOMAIN urlVisitors =>
       \A u \in RefineURLs :
          /\ GetDistinctVisitors(u) = SimpleGetDistinctVisitors(urlVisitors, u)
          /\ u \in DOMAIN urlStats => urlStats[u].DistinctVisitors =
                                         Cardinality(DOMAIN urlStats[u].Visitors)

\* two visitors, one on /Path and one on /path: one set of two for the
\* set-based tracker, two aggregates of one for the store
C38_PathCaseSplits ==
    /\ PathCase \in DOMAIN urlStats
    /\ GetDistinctVisitors(PathPlain) = 1
    /\ SimpleGetDistinctVisitors(urlVisitors, PathPlain) = 2

\* three events on keys the two trackers agree on
RefineAgreedRun ==
    /\ DOMAIN urlStats = DOMAIN urlVisitors
    /\ recorded = MaxEvents
    /\ GetDistinctVisitors(PathPlain) = 2

\* ------------------------------------------------------------------------
\* Properties of the MetricsCollector
\* ------------------------------------------------------------------------
MetricsIdle == \A t \in 1..NumCallers : mc.th[t].pc = "idle"

\* the calls since the last Reset that went to endpoint e with an error status
ErrorCalls(e) ==
    { i \in DOMAIN mc.log : mc.log[i].endpoint = e /\ mc.log[i].statusCode >= 400 }

\* C39: when every RecordRequest call has returned, TotalRequests is the
\* number of calls, the status-code counts and the per-endpoint RequestCounts
\* each sum to it, and the ErrorCount of an endpoint is the number of its
\* calls with a status of 400 or more; Reset leaves every counter at zero and
\* both maps empty
C39_RequestCountersConsistent ==
    /\ [](MetricsIdle =>
            LET m == GetMetricsCircular(mc.circular)
            IN  /\ m.TotalRequests = Len(mc.log)
                /\ SumCounts(m.StatusCodes) = m.TotalRequests
                /\ SumCounts([e \in DOMAIN m.EndpointMetrics |->
                                m.EndpointMetrics[e].RequestCount]) = m.TotalRequests
                /\ \A e \in Endpoints :
                      (IF e \in DOMAIN m.EndpointMetrics
                       THEN m.EndpointMetrics[e].ErrorCount ELSE 0)
                         = Cardinality(ErrorCalls(e)))
    /\ [][MCReset =>
            /\ mc'.circular.requestCount = 0
            /\ mc'.circular.errorCount = 0
            /\ mc'.circular.responseCount = 0
            /\ mc'.circular.endpointMetrics = <<>>
            /\ mc'.circular.statusCodes = <<>>]_vars

\* MaxEvents calls from all the goroutines, errors among them, have returned
C39_Witness ==
    /\ MetricsIdle
    /\ Len(mc.log) = MaxEvents
    /\ { mc.log[i].by : i \in DOMAIN mc.log } = 1..NumCallers
    /\ mc.circular.errorCount >= 1
    /\ DOMAIN mc.circular.endpointMetrics = Endpoints

\* the response times of the last min(n, B) calls since the last Reset
RecentTimes ==
    LET n == Len(mc.log)
        k == IF n < responseTimesBufferSize THEN n ELSE responseTimesBufferSize
    IN  [i \in 1..k |-> mc.log[n - k + i].responseTime]

\* C40: after any sequence of RecordRequest and Reset calls made on both
\* collectors, each retains the response times of the most recent min(n, B)
\* calls since the last Reset, responseCount is between 0 and B, responseIndex
\* between 0 and B - 1, and GetMetrics reports the same average, minimum and
\* maximum (and the same counters) in both
C40_CircularEqualsSlice ==
    /\ mc.circular.responseCount \in 0..responseTimesBufferSize
    /\ mc.circular.responseIndex \in 0..(responseTimesBufferSize - 1)
    /\ CircularOrder(mc.circular) = RecentTimes
    /\ mc.slice.responseTimes = RecentTimes
    /\ GetMetricsCircular(mc.circular) = GetMetricsSlice(mc.slice)

\* the buffer has wrapped: the oldest response time, the largest so far, is
\* gone from both
C40_Witness ==
    /\ Len(mc.log) = responseTimesBufferSize + 1
    /\ mc.log[1].responseTime = 4
    /\ mc.circular.responseIndex = 1
    /\ GetMetricsCircular(mc.circular).MaxResponseTime = 2
    /\ GetMetricsSlice(mc.slice).MinResponseTime = 1

\* a Reset after the buffer has wrapped, then one more request
BufferReusedAfterReset ==
    /\ mc.started = responseTimesBufferSize + 2
    /\ Len(mc.log) = 1
    /\ mc.circular.responseCount = 1
====
